---- MODULE Spec2Model ----
(***************************************************************************)
(* Multi-agent pricing engine of pricing-intelligence-poc.                 *)
(*                                                                         *)
(* Process-lifetime state: the reference tables of the orchestrator, the   *)
(* policy table of the RulesAgent, the classifier and the label encoders   *)
(* of the WinRateAgent.  One action per public operation; each action      *)
(* runs the whole handler and leaves its outcome in `response`.            *)
(*                                                                         *)
(* Number representation (Python floats are modelled as exact rationals):  *)
(*   cogs, floor_price, ceiling_price, proposed_price : integer cents      *)
(*   a grid price                 : <<num, den>>, the price num/den cents  *)
(*   min_margin_pct, ceiling_pct  : thousandths (0.10 -> 100, 2.0 -> 2000) *)
(*   win_probability              : thousandths (round(p, 3))              *)
(*   competitor_price             : tenths of a cent (cogs * 1.3)          *)
(* round(x, 2) is round-half-even on the exact value; the inputs are       *)
(* chosen away from exact halves, where the binary float would decide.     *)
(***************************************************************************)
EXTENDS Integers, Sequences, FiniteSets, TLC

VARIABLES products_df, customers_df, cogs_df, policy_df, model, encoders, response, cache, analytics_store, now, job

vars == <<products_df, customers_df, cogs_df, policy_df, model, encoders, response, cache, analytics_store, now, job>>

tables == <<products_df, customers_df, cogs_df, policy_df, model>>

persistent == <<tables, encoders>>

\* The state of the enterprise API process (enterprise_api.py): the result
\* cache and the analytics store of its orchestrator, the wall clock, and the
\* bulk job being processed.
enterprise == <<cache, analytics_store, now, job>>

NoJob == [phase |-> "none"]

\* The enterprise process right after construction
EnterpriseInit ==
  /\ cache = <<>>
  /\ analytics_store = <<>>
  /\ now = 0
  /\ job = NoJob

----------------------------------------------------------------------------
(* Arithmetic helpers *)

\* round(n/d) to the nearest integer, halves to even (d > 0); \div floors.
RoundHalfEven(n, d) ==
  LET q == n \div d
      r == n % d
  IN  IF 2 * r < d THEN q
      ELSE IF 2 * r > d THEN q + 1
      ELSE IF q % 2 = 0 THEN q ELSE q + 1

\* round up instead of to nearest
RoundUp(n, d) ==
  IF n % d = 0 THEN n \div d ELSE (n \div d) + 1

\* Python round(x, 2) of the amount n/d cents, in cents.
Round2(n, d) == RoundHalfEven(n, d)

----------------------------------------------------------------------------
(* Python dict helpers: a dict is a function whose DOMAIN is its key set. *)

Get(d, k, default) == IF k \in DOMAIN d THEN d[k] ELSE default

SetDefault(d, k, v) == IF k \in DOMAIN d THEN d ELSE (k :> v) @@ d

Update(d, other) == other @@ d

\* A Python list built by a loop or a comprehension: the sequence of the
\* values f[1], ..., f[n], each computed once.
List(f) == SelectSeq(f, LAMBDA x : TRUE)

\* A DataFrame is [cols |-> BOOLEAN, rows |-> sequence of records]:
\* pd.read_csv gives a frame with columns; pd.DataFrame() has none.
DataFrame(rows) == [cols |-> TRUE, rows |-> rows]

EmptyDataFrame == [cols |-> FALSE, rows |-> <<>>]

\* DataFrame.empty
Empty(df) == Len(df.rows) = 0

----------------------------------------------------------------------------
(* An outcome of a call: a value, or the exception that propagated. *)

Raise(e) == [exc |-> e]

Raised(r) == "exc" \in DOMAIN r

----------------------------------------------------------------------------
(* Context enrichment: AgentOrchestrator._enrich_context *)

DefaultFamily == "Widgets"

DefaultSegment == "Enterprise"

DefaultRegion == "EMEA"

\* context.setdefault('cogs', 80.0), in cents
DefaultCogs == 8000

\* context['cogs'] * 1.3, in tenths of a cent
CompetitorPrice(cogs) == cogs * 13

enrich_context(sku, customer_id, quantity, country, channel, currency) ==
  LET context == [sku |-> sku, customer_id |-> customer_id, quantity |-> quantity,
                  country |-> country, channel |-> channel, currency |-> currency]
      product_row == SelectSeq(products_df.rows, LAMBDA r : r.sku = sku)
      hasProduct == ~Empty(products_df) /\ Len(product_row) > 0
      withProduct ==
        IF hasProduct
        THEN Update(context, [product_id |-> product_row[1].product_id,
                              product_family |-> product_row[1].family])
        ELSE context
      cogs_row ==
        IF hasProduct
        THEN SelectSeq(cogs_df.rows, LAMBDA r : r.product_id = product_row[1].product_id)
        ELSE <<>>
      withCogs ==
        IF hasProduct /\ ~Empty(cogs_df) /\ Len(cogs_row) > 0
        THEN Update(withProduct, [cogs |-> cogs_row[1].cogs])
        ELSE withProduct
      customer_row == SelectSeq(customers_df.rows, LAMBDA r : r.customer_id = customer_id)
      withCustomer ==
        IF ~Empty(customers_df) /\ Len(customer_row) > 0
        THEN Update(withCogs, [customer_segment |-> customer_row[1].segment,
                               industry |-> customer_row[1].industry,
                               region |-> customer_row[1].region])
        ELSE withCogs
      d1 == SetDefault(withCustomer, "product_family", DefaultFamily)
      d2 == SetDefault(d1, "cogs", DefaultCogs)
      d3 == SetDefault(d2, "customer_segment", DefaultSegment)
      d4 == SetDefault(d3, "region", DefaultRegion)
  IN  SetDefault(d4, "competitor_price", CompetitorPrice(d4["cogs"]))

----------------------------------------------------------------------------
(* Policy agent: RulesAgent *)

DefaultMinMarginPct == 100

DefaultCeilingPct == 2000

DefaultBands == <<"APPROVED", "REVIEW", "REJECT">>

\* the floor rounded up to the next cent
FloorPriceUp(cogs, min_margin_pct) == RoundUp(cogs * (1000 + min_margin_pct), 1000)

\* round(cogs * (1 + min_margin_pct), 2), in cents
FloorPrice(cogs, min_margin_pct) == Round2(cogs * (1000 + min_margin_pct), 1000)

\* round(cogs * ceiling_pct, 2), in cents
CeilingPrice(cogs, ceiling_pct) == Round2(cogs * ceiling_pct, 1000)

\* json.loads(policy['approval_bands_json'])['bands'], default bands when it throws
ApprovalBands(policy) ==
  IF policy.bands_ok THEN policy.bands ELSE DefaultBands

\* a rules result that also reports the cost it priced on, in whole currency
\* units, under the key cogs
RulesAgent_execute_costed(context) ==
  LET region == Get(context, "region", "EMEA")
      product_family == Get(context, "product_family", "Widgets")
      cogs == Get(context, "cogs", 10000)
  IN  IF ~policy_df.cols
      THEN Raise("KeyError")
      ELSE
        LET policy_row == SelectSeq(policy_df.rows,
                            LAMBDA r : r.region = region /\ r.family = product_family)
            miss == Len(policy_row) = 0
            min_margin_pct == IF miss THEN DefaultMinMarginPct
                              ELSE policy_row[1].min_margin_pct
            ceiling_pct == IF miss THEN DefaultCeilingPct ELSE policy_row[1].ceiling_pct
            approval_bands == IF miss THEN DefaultBands ELSE ApprovalBands(policy_row[1])
        IN  [floor_price |-> FloorPrice(cogs, min_margin_pct),
             ceiling_price |-> CeilingPrice(cogs, ceiling_pct),
             min_margin_pct |-> min_margin_pct,
             approval_bands |-> approval_bands,
             policy_source |-> <<region, product_family>>,
             reasons |-> <<min_margin_pct, ceiling_pct>>,
             cogs |-> 100 * RoundHalfEven(cogs, 100)]

\* RulesAgent.execute
RulesAgent_execute(context) ==
  LET region == Get(context, "region", "EMEA")
      product_family == Get(context, "product_family", "Widgets")
      cogs == Get(context, "cogs", 10000)
  IN  IF ~policy_df.cols
      THEN Raise("KeyError")
      ELSE
        LET policy_row == SelectSeq(policy_df.rows,
                            LAMBDA r : r.region = region /\ r.family = product_family)
            miss == Len(policy_row) = 0
            min_margin_pct == IF miss THEN DefaultMinMarginPct
                              ELSE policy_row[1].min_margin_pct
            ceiling_pct == IF miss THEN DefaultCeilingPct ELSE policy_row[1].ceiling_pct
            approval_bands == IF miss THEN DefaultBands ELSE ApprovalBands(policy_row[1])
        IN  [floor_price |-> FloorPrice(cogs, min_margin_pct),
             ceiling_price |-> CeilingPrice(cogs, ceiling_pct),
             min_margin_pct |-> min_margin_pct,
             approval_bands |-> approval_bands,
             policy_source |-> <<region, product_family>>,
             reasons |-> <<min_margin_pct, ceiling_pct>>]

\* margin_pct >= min_margin_pct for the price num/den cents:
\* (price - cogs) / cogs if cogs > 0 else 0, compared without dividing.
MarginAtLeast(num, den, cogs, min_margin_pct) ==
  IF cogs > 0
  THEN (num - den * cogs) * 1000 >= min_margin_pct * den * cogs
  ELSE 0 >= min_margin_pct

\* RulesAgent.get_approval_band, for the price num/den cents
get_approval_band(num, den, cogs, context) ==
  LET rules_result == RulesAgent_execute(context)
  IN  IF Raised(rules_result) THEN rules_result
      ELSE IF MarginAtLeast(num, den, cogs, rules_result.min_margin_pct)
           THEN IF num <= den * rules_result.ceiling_price
                THEN [band |-> "APPROVED"]
                ELSE [band |-> "REVIEW"]
           ELSE [band |-> "REJECT"]

----------------------------------------------------------------------------
(* Win-probability agent: WinRateAgent *)

categorical_cols == <<"segment", "channel", "region", "family", "volume_tier",
                      "price_position">>

\* Volume tier of the training data: pd.cut(quantity, bins=[0, 5, 15, 30, 100]),
\* intervals closed on the right, NaN (printed "nan") outside (0, 100]
TrainVolumeTier(quantity) ==
  IF quantity <= 0 THEN "nan"
  ELSE IF quantity <= 5 THEN "Small"
  ELSE IF quantity <= 15 THEN "Medium"
  ELSE IF quantity <= 30 THEN "Large"
  ELSE IF quantity <= 100 THEN "XLarge"
  ELSE "nan"

\* Price position of the training data for price_vs_competitor = n/d (d > 0):
\* pd.cut(ratio, bins=[0, 0.9, 1.1, 2.0]), NaN outside (0, 2.0]
TrainPricePosition(n, d) ==
  IF n <= 0 THEN "nan"
  ELSE IF n * 10 <= 9 * d THEN "Below"
  ELSE IF n * 10 <= 11 * d THEN "Match"
  ELSE IF n <= 2 * d THEN "Above"
  ELSE "nan"

\* Volume tier of execute (inference)
VolumeTier(quantity) ==
  IF quantity <= 5 THEN "Small"
  ELSE IF quantity <= 15 THEN "Medium"
  ELSE IF quantity <= 30 THEN "Large"
  ELSE "XLarge"

\* Price position of execute, for price_vs_competitor = n/d
PricePosition(n, d) ==
  IF n * 10 < 9 * d THEN "Below"
  ELSE IF n * 10 <= 11 * d THEN "Match"
  ELSE "Above"

\* 0-based position of v in the sequence classes, or -1
IndexOf(classes, v) ==
  IF \E i \in 1..Len(classes) : classes[i] = v
  THEN (CHOOSE i \in 1..Len(classes) : classes[i] = v) - 1
  ELSE -1

\* an unseen value gets the next free code
EncodeNext(enc, col, v) ==
  IF col \in DOMAIN enc
  THEN IF IndexOf(enc[col], v) >= 0 THEN IndexOf(enc[col], v) ELSE Len(enc[col])
  ELSE 0

\* encoders[col].transform([v])[0]; an unseen value (ValueError) and a
\* column without encoder both give 0
Encode(enc, col, v) ==
  IF col \in DOMAIN enc
  THEN IF IndexOf(enc[col], v) >= 0 THEN IndexOf(enc[col], v) ELSE 0
  ELSE 0

\* transform refits the encoders: a column or a value that is new to them is
\* added to them
EncodersRefit(enc, context) ==
  LET seg == Get(context, "customer_segment", "Enterprise")
      fam == Get(context, "product_family", "Widgets")
      e1 == IF "segment" \in DOMAIN enc
            THEN IF IndexOf(enc["segment"], seg) >= 0 THEN enc
                 ELSE [enc EXCEPT !["segment"] = Append(@, seg)]
            ELSE ("segment" :> <<seg>>) @@ enc
  IN  IF "family" \in DOMAIN e1
      THEN IF IndexOf(e1["family"], fam) >= 0 THEN e1
           ELSE [e1 EXCEPT !["family"] = Append(@, fam)]
      ELSE ("family" :> <<fam>>) @@ e1

\* The encoders after the inferences of one request on a context:
\* execute only reads self.encoders (transform, never fit).
EncodersAfter(enc, context) == enc

\* margin_pct = mn/md lies above threshold k of the classifier, the fraction
\* (21 + 9k) / 190: between points k and k+1 (counted from 0) of the 20-point
\* grid of the default policy, whose margins are (19 + 9i) / 190.
AboveCut(mn, md, k) == mn * 190 > (21 + 9 * k) * md

\* model.predict_proba(X)[0, 1] in ten-thousandths.  The classifier is a
\* piecewise-constant function of the feature vector: a split on one encoded
\* categorical column, then thresholds on margin_pct = mn/md (x <= t goes left).
predict_proba(clf, X) ==
  IF clf.split_col # "none" /\ X.encoded[clf.split_col] >= 1
  THEN clf.alt
  ELSE clf.leaves[1 + Cardinality({k \in clf.cuts : AboveCut(X.mn, X.md, k)})]

\* the probability in ten-thousandths, as predict_proba gives it
NotRounded(p) == p

\* round(win_probability, 3), in thousandths
Round3(p) == RoundHalfEven(p, 10)

\* WinRateAgent.execute; prices are <<num, den>> (num/den cents)
WinRateAgent_execute(context) ==
  LET proposed_price == Get(context, "proposed_price",
                            Get(context, "target_price", <<10000, 1>>))
      pn == proposed_price[1]
      pd == proposed_price[2]
      \* default proposed_price * 1.05, in tenths of a cent
      competitor_price == Get(context, "competitor_price", (pn * 21) \div (2 * pd))
      cogs == Get(context, "cogs", 8000)
      quantity == Get(context, "quantity", 10)
      \* margin_pct = mn / md
      mn == IF cogs > 0 THEN pn - pd * cogs ELSE 0
      md == IF cogs > 0 THEN pd * cogs ELSE 1
      \* price_vs_competitor = vn / vd
      vn == IF competitor_price > 0 THEN pn * 10 ELSE 1
      vd == IF competitor_price > 0 THEN pd * competitor_price ELSE 1
      values == [segment |-> Get(context, "customer_segment", "Enterprise"),
                 channel |-> Get(context, "channel", "Direct"),
                 region |-> Get(context, "region", "EMEA"),
                 family |-> Get(context, "product_family", "Widgets"),
                 volume_tier |-> VolumeTier(quantity),
                 price_position |-> PricePosition(vn, vd)]
      X == [mn |-> mn, md |-> md, vn |-> vn, vd |-> vd, quantity |-> quantity,
            values |-> values,
            encoded |-> [c \in DOMAIN values |-> Encode(encoders, c, values[c])]]
      p == predict_proba(model, X)
  IN  \* discount_depth divides by list_price = proposed_price * 1.2: a caller's
      \* Python float (den = 1) raises; it is the constant 1/6 for every other
      \* price, so it is no argument of predict_proba here
      IF pn = 0 /\ pd = 1 /\ "list_price" \notin DOMAIN context
      THEN Raise("ZeroDivisionError")
      ELSE [win_probability |-> Round3(p),
            confidence |-> IF p > 7000 \/ 10000 - p > 7000 THEN "High" ELSE "Medium",
            model_features |-> X,
            reasons |-> <<RoundHalfEven(p, 10)>>]

----------------------------------------------------------------------------
(* Elasticity agent: ElasticityAgent *)

\* a table with every base elasticity doubled
elasticity_params_steep ==
  [Enterprise |-> [EMEA |-> [base_elasticity |-> -24, volume_adj |-> 10],
                   Americas |-> [base_elasticity |-> -22, volume_adj |-> 12]],
   SMB |-> [EMEA |-> [base_elasticity |-> -36, volume_adj |-> 5],
            Americas |-> [base_elasticity |-> -34, volume_adj |-> 8]]]

\* elasticity_params: base_elasticity in tenths, volume_adj in hundredths
elasticity_params ==
  [Enterprise |-> [EMEA |-> [base_elasticity |-> -12, volume_adj |-> 10],
                   Americas |-> [base_elasticity |-> -11, volume_adj |-> 12]],
   SMB |-> [EMEA |-> [base_elasticity |-> -18, volume_adj |-> 5],
            Americas |-> [base_elasticity |-> -17, volume_adj |-> 8]]]

ElasticityDefault == [base_elasticity |-> -15, volume_adj |-> 8]

ElasticityParams(segment, region) ==
  IF segment \in DOMAIN elasticity_params /\ region \in DOMAIN elasticity_params[segment]
  THEN elasticity_params[segment][region]
  ELSE ElasticityDefault

\* the magnitude of the adjusted elasticity
AdjustedElasticityMagnitude(segment, region, quantity) ==
  LET params == ElasticityParams(segment, region)
      vq == IF quantity < 20 THEN quantity ELSE 20
  IN  (0 - params.base_elasticity) * (2000 - vq * params.volume_adj)

\* the volume factor quantity / 20 without its cap at 1
AdjustedElasticityUncapped(segment, region, quantity) ==
  LET params == ElasticityParams(segment, region)
  IN  params.base_elasticity * (2000 - quantity * params.volume_adj)

\* adjusted_elasticity = base * (1 - min(1, quantity / 20) * volume_adj),
\* as the numerator of a fraction over 20000
AdjustedElasticity(segment, region, quantity) ==
  LET params == ElasticityParams(segment, region)
      vq == IF quantity < 20 THEN quantity ELSE 20
  IN  params.base_elasticity * (2000 - vq * params.volume_adj)

\* Greatest common divisor of two naturals
RECURSIVE GCD(_, _)
GCD(a, b) == IF b = 0 THEN a ELSE GCD(b, a % b)

\* The fraction n/d (d # 0) in lowest terms with a positive denominator
Reduce(n, d) ==
  LET g == GCD(IF n < 0 THEN -n ELSE n, IF d < 0 THEN -d ELSE d)
  IN  IF n = 0 THEN <<0, 1>> ELSE IF d < 0 THEN <<(-n) \div g, (-d) \div g>> ELSE <<n \div g, d \div g>>

\* context.get('current_price', context.get('target_price', 100))
CurrentPrice(context) ==
  Get(context, "current_price", Get(context, "target_price", <<10000, 1>>))

\* a minimum of 2 units
AtLeastTwo(q) == IF q[1] < 2 * q[2] THEN <<2, 1>> ELSE q

\* max(1, new_quantity) for the quantity q = <<num, den>>
AtLeastOne(q) == IF q[1] < q[2] THEN <<1, 1>> ELSE q

\* cogs / (1 - optimal_markup) with optimal_markup = -1 / (adjusted + 1), for
\* cogs = <<num, den>> and the adjusted elasticity as a numerator over 20000:
\* 1 - optimal_markup = (adjusted + 40000) / (adjusted + 20000), not 0 here
SuggestedPrice(cogs, adjusted) ==
  Reduce(cogs[1] * (adjusted + 20000), cogs[2] * (adjusted + 40000))

\* ElasticityAgent.execute: price_elasticity in hundredths, demand_change_pct
\* and revenue_change_pct in thousandths, new_quantity_estimate in tenths,
\* suggested_price in cents
ElasticityAgent_execute(context) ==
  LET segment == Get(context, "customer_segment", "Enterprise")
      region == Get(context, "region", "EMEA")
      quantity == Get(context, "quantity", 10)
      RoundQ(k, q) == RoundHalfEven(k * q[1], q[2])
      \* price_change_pct = XN / XD of the current price c and the proposed price p
      XN(c, p) == IF c[1] > 0 THEN p[1] * c[2] - c[1] * p[2] ELSE 0
      XD(c, p) == IF c[1] > 0 THEN c[1] * p[2] ELSE 1
      DemandChange(e, x) == Reduce(e[1] * x[1], e[2] * x[2])
      NewQuantity(d) == AtLeastOne(Reduce(quantity * (d[2] + d[1]), d[2]))
      \* new_revenue / current_revenue = (1 + price_change_pct) * new_quantity
      \* / quantity when current_revenue = current_price * quantity > 0
      RevenueChange(current_price, x, new_quantity) ==
        IF current_price[1] > 0 /\ quantity > 0
        THEN Reduce((x[2] + x[1]) * new_quantity[1] - x[2] * new_quantity[2] * quantity,
                    x[2] * new_quantity[2] * quantity)
        ELSE <<0, 1>>
      Cogs(current_price) ==
        IF "cogs" \in DOMAIN context THEN <<context["cogs"], 1>>
        ELSE Reduce(7 * current_price[1], 10 * current_price[2])
      Outcome(current_price, adjusted, xn, xd, x, new_quantity) ==
        IF adjusted < -20000 /\ adjusted + 40000 = 0
        THEN Raise("ZeroDivisionError")
        ELSE [price_elasticity |-> RoundHalfEven(adjusted, 200),
              demand_change_pct |-> RoundHalfEven(adjusted * xn, 20 * xd),
              new_quantity_estimate |-> RoundQ(10, new_quantity),
              revenue_change_pct |-> RoundQ(1000, RevenueChange(current_price, x, new_quantity)),
              suggested_price |-> RoundQ(1, IF adjusted < -20000
                                            THEN SuggestedPrice(Cogs(current_price), adjusted)
                                            ELSE current_price),
              elasticity_segment |-> <<segment, region>>]
      Changed(current_price, adjusted, xn, xd, x) ==
        Outcome(current_price, adjusted, xn, xd, x,
                NewQuantity(DemandChange(Reduce(adjusted, 20000), x)))
      Priced(current_price, proposed_price, adjusted) ==
        Changed(current_price, adjusted, XN(current_price, proposed_price),
                XD(current_price, proposed_price),
                Reduce(XN(current_price, proposed_price), XD(current_price, proposed_price)))
  IN  Priced(CurrentPrice(context), Get(context, "proposed_price", CurrentPrice(context)),
             AdjustedElasticity(segment, region, quantity))

----------------------------------------------------------------------------
(* Explanation agent: ExplainerAgent *)

\* One sentence (or risk factor) when its condition holds
When(cond, part) == IF cond THEN <<part>> ELSE <<>>

\* The risk factors of execute: context.get('margin_pct', 0) < 0.1 reads a key
\* of the context, in thousandths here
RiskFactors(context, win_prob, elasticity) ==
  When(win_prob < 300, "low win probability")
  \o When(elasticity < -200, "high price sensitivity")
  \o When(Get(context, "margin_pct", 0) < 100, "thin margins")

\* ExplainerAgent.execute: the explanation as the list of its sentences, each
\* named by what it says, and the risk factors of its 'Key risks' sentence
ExplainerAgent_execute(context) ==
  LET target == Get(context, "target_price", <<0, 1>>)
      win_prob == Get(context, "win_probability", 0)
      elasticity == Get(context, "price_elasticity", 0)
      competitor_price == Get(context, "competitor_price", 0)
      quantity == Get(context, "quantity", 0)
      channel == Get(context, "channel", "")
      approval_band == Get(context, "approval_band", "UNKNOWN")
      \* price_diff_pct = 100 * dn / dd, prices in tenths of a cent
      dn == 10 * target[1] - competitor_price * target[2]
      dd == competitor_price * target[2]
      competitive ==
        IF competitor_price # 0 /\ target[1] > 0
        THEN IF (IF dn < 0 THEN -dn ELSE dn) * 100 < 5 * dd THEN <<"matches competitor">>
             ELSE IF dn * 100 > 10 * dd THEN <<"above competitors">>
             ELSE IF dn * 100 < -10 * dd THEN <<"below competitors">>
             ELSE <<>>
        ELSE <<>>
      risk_factors == RiskFactors(context, win_prob, elasticity)
  IN  [explanation |->
         When(target[1] > 0, "margin of target")
         \o (IF win_prob > 700 THEN <<"strong win probability">>
             ELSE IF win_prob > 400 THEN <<"moderate win probability">>
             ELSE <<"lower win probability">>)
         \o (IF elasticity < -150 THEN <<"price-sensitive">>
             ELSE IF elasticity > -100 THEN <<"low price sensitivity">>
             ELSE <<"moderate price sensitivity">>)
         \o competitive
         \o (IF quantity > 20 THEN <<"large volume">>
             ELSE IF quantity < 5 THEN <<"small volume">> ELSE <<>>)
         \o (IF channel \in {"Direct", "direct"} THEN <<"direct channel">>
             ELSE IF channel \in {"Partner", "partner"} THEN <<"partner channel">>
             ELSE <<>>)
         \o When(approval_band \in {"APPROVED", "REVIEW", "REJECT"}, approval_band)
         \o When(Len(risk_factors) > 0, "Key risks"),
       risk_factors |-> risk_factors,
       key_insights |-> <<win_prob, elasticity, approval_band>>]

----------------------------------------------------------------------------
(* Orchestrator: AgentOrchestrator *)

\* Points of the recommendation grid and of the win curve
GridSize == 20

CurveSize == 15

\* Viability threshold of the stretch price, in thousandths
ViableAbove == 200

\* the grid from stop down to start
LinspaceReversed(start, stop, n) ==
  [i \in 1..n |-> <<(n - 1) * stop - (i - 1) * (stop - start), n - 1>>]

\* a grid shifted by one step: it starts one step above start and ends one
\* step beyond stop
LinspaceShifted(start, stop, n) ==
  [i \in 1..n |-> <<(n - 1) * start + i * (stop - start), n - 1>>]

\* a grid that starts one step below start
LinspaceEarly(start, stop, n) ==
  [i \in 1..n |-> <<(n - 1) * start + (i - 2) * (stop - start), n - 1>>]

\* np.linspace(start, stop, n)[i + 1] for i in 0..n-1, as <<num, den>>
Linspace(start, stop, n) ==
  [i \in 1..n |-> <<(n - 1) * start + (i - 1) * (stop - start), n - 1>>]

\* Python max(seq, key=...): scan from the left, a later element replaces the
\* best one only when its key is strictly greater.  keys[i] is the key of seq[i].
PyMaxScan(keyFn) ==
  LET keys == List(keyFn)
      scan[i \in 1..Len(keys)] ==
        IF i = 1 THEN 1
        ELSE LET best == scan[i - 1]
             IN  IF keys[i] > keys[best] THEN i ELSE best
  IN  scan[Len(keys)]

\* as PyMaxScan, but ties go to the later element
PyMaxScanLast(keyFn) ==
  LET keys == List(keyFn)
      scan[i \in 1..Len(keys)] ==
        IF i = 1 THEN 1
        ELSE LET best == scan[i - 1]
             IN  IF keys[i] >= keys[best] THEN i ELSE best
  IN  scan[Len(keys)]

\* Index of lastmax
TargetIndexLast(candidate_scores) ==
  PyMaxScanLast([i \in 1..Len(candidate_scores) |-> candidate_scores[i].expected_margin])

\* Index of max(candidate_scores, key=lambda x: x['expected_margin'])
TargetIndex(candidate_scores) ==
  PyMaxScan([i \in 1..Len(candidate_scores) |-> candidate_scores[i].expected_margin])

\* viable candidates with win_prob >= 0.2
StretchPriceAtLeast(candidate_scores, ceiling_price) ==
  LET viable == SelectSeq(candidate_scores,
                          LAMBDA c : c.win_probability >= ViableAbove)
  IN  IF Len(viable) > 0
      THEN viable[PyMaxScan([i \in 1..Len(viable) |-> viable[i].price[1]])].price
      ELSE <<ceiling_price, 1>>

\* the first viable candidate in the order of evaluation
StretchPriceFirstViable(candidate_scores, ceiling_price) ==
  LET viable == SelectSeq(candidate_scores,
                          LAMBDA c : c.win_probability > ViableAbove)
  IN  IF Len(viable) > 0 THEN viable[1].price ELSE <<ceiling_price, 1>>

\* The stretch price: highest price among the viable candidates
\* (win_prob > 0.2), ceiling_price when there is none.  All candidates share
\* the denominator, so max by price is max by numerator.
StretchPrice(candidate_scores, ceiling_price) ==
  LET viable == SelectSeq(candidate_scores,
                          LAMBDA c : c.win_probability > ViableAbove)
  IN  IF Len(viable) > 0
      THEN viable[PyMaxScan([i \in 1..Len(viable) |-> viable[i].price[1]])].price
      ELSE <<ceiling_price, 1>>

\* 'APPROVED' in str(approval_bands): a substring test on the printed list,
\* true of every band name that contains the text APPROVED
InText(band) == band \in {"APPROVED", "PRE_APPROVED", "NOT_APPROVED"}

\* the win-probability tiers with >= in place of >
calculate_confidence_inclusive(winrate_result, elasticity_result, rules_result) ==
  LET f1 == IF winrate_result.win_probability >= 600 THEN 10
            ELSE IF winrate_result.win_probability >= 400 THEN 7 ELSE 3
      e == elasticity_result.price_elasticity
      f2 == IF (IF e < 0 THEN -e ELSE e) < 200 THEN 9 ELSE 5
      f3 == IF \E i \in 1..Len(rules_result.approval_bands) :
                  InText(rules_result.approval_bands[i])
            THEN 10 ELSE 6
      total == f1 + f2 + f3
  IN  IF total > 24 THEN "High" ELSE IF total > 18 THEN "Medium" ELSE "Low"

\* AgentOrchestrator._calculate_confidence: the three factors in tenths; the
\* average is > 0.8 when their sum is > 24 tenths, > 0.6 when it is > 18
calculate_confidence(winrate_result, elasticity_result, rules_result) ==
  LET f1 == IF winrate_result.win_probability > 600 THEN 10
            ELSE IF winrate_result.win_probability > 400 THEN 7 ELSE 3
      e == elasticity_result.price_elasticity
      f2 == IF (IF e < 0 THEN -e ELSE e) < 200 THEN 9 ELSE 5
      f3 == IF \E i \in 1..Len(rules_result.approval_bands) :
                  InText(rules_result.approval_bands[i])
            THEN 10 ELSE 6
      total == f1 + f2 + f3
  IN  IF total > 24 THEN "High" ELSE IF total > 18 THEN "Medium" ELSE "Low"

\* recommend_price, step 4: one candidate of the grid, scored
Candidate(context, price, winrate_result) ==
  [price |-> price,
   elasticity_score |->
     ElasticityAgent_execute(Update(context, [proposed_price |-> price,
                                              target_price |-> price])).revenue_change_pct,
   expected_margin |-> (price[1] - price[2] * context["cogs"])
                         * winrate_result.win_probability,
   win_probability |-> winrate_result.win_probability,
   margin |-> price[1] - price[2] * context["cogs"]]

\* recommend_price, steps 6 to 8: the final metrics at the target price and
\* the compiled recommendation
CompileRecommendation(context, rules_result, candidate_scores, target_candidate, stretch_price, final_winrate, final_elasticity, approval_band) ==
  LET final_context ==
        Update(context, [target_price |-> target_candidate.price,
                         proposed_price |-> target_candidate.price,
                         floor_price |-> rules_result.floor_price,
                         stretch_price |-> stretch_price])
      explanation_context ==
        Update(final_context,
               [win_probability |-> final_winrate.win_probability,
                price_elasticity |-> final_elasticity.price_elasticity,
                approval_band |-> approval_band.band])
  IN
  [result |->
     [floor |-> rules_result.floor_price,
      target |-> Round2(target_candidate.price[1], target_candidate.price[2]),
      stretch |-> Round2(stretch_price[1], stretch_price[2]),
      p_win_at_target |-> final_winrate.win_probability,
      reasons |-> [explanation |-> ExplainerAgent_execute(explanation_context).explanation,
                   expected_margin |->
                     Round2(target_candidate.expected_margin,
                            target_candidate.price[2] * 1000),
                   approval_band |-> approval_band.band],
      agent_insights |-> [rules |-> rules_result.reasons,
                          winrate |-> final_winrate.reasons,
                          elasticity |-> final_elasticity.price_elasticity],
      confidence_score |->
        calculate_confidence(final_winrate, final_elasticity, rules_result)],
   locals |-> [context |-> context,
               ceiling_price |-> rules_result.ceiling_price,
               candidate_scores |-> candidate_scores,
               target_price |-> target_candidate.price,
               stretch_price |-> stretch_price,
               candidate_contexts |->
                 [i \in 1..Len(candidate_scores) |->
                    Update(context, [proposed_price |-> candidate_scores[i].price,
                                     target_price |-> candidate_scores[i].price])],
               final_context |-> final_context,
               explanation_context |-> explanation_context]]

\* the final win probability taken at the stretch price
SelectPricesAtStretch(context, rules_result, candidate_scores, target_candidate, stretch_price) ==
  CompileRecommendation(
    context, rules_result, candidate_scores, target_candidate, stretch_price,
    WinRateAgent_execute(
      Update(context, [target_price |-> target_candidate.price,
                       proposed_price |-> stretch_price,
                       floor_price |-> rules_result.floor_price,
                       stretch_price |-> stretch_price])),
    ElasticityAgent_execute(
      Update(context, [target_price |-> target_candidate.price,
                       proposed_price |-> target_candidate.price,
                       floor_price |-> rules_result.floor_price,
                       stretch_price |-> stretch_price])),
    get_approval_band(target_candidate.price[1], target_candidate.price[2],
                      context["cogs"], context))

\* recommend_price, steps 5 to 8, for the scored candidates
SelectPrices(context, rules_result, candidate_scores, target_candidate, stretch_price) ==
  CompileRecommendation(
    context, rules_result, candidate_scores, target_candidate, stretch_price,
    WinRateAgent_execute(
      Update(context, [target_price |-> target_candidate.price,
                       proposed_price |-> target_candidate.price,
                       floor_price |-> rules_result.floor_price,
                       stretch_price |-> stretch_price])),
    ElasticityAgent_execute(
      Update(context, [target_price |-> target_candidate.price,
                       proposed_price |-> target_candidate.price,
                       floor_price |-> rules_result.floor_price,
                       stretch_price |-> stretch_price])),
    get_approval_band(target_candidate.price[1], target_candidate.price[2],
                      context["cogs"], context))

\* recommend_price, step 5: the target candidate and the stretch price
SelectWith(context, rules_result, candidate_scores) ==
  SelectPrices(context, rules_result, candidate_scores,
               candidate_scores[TargetIndex(candidate_scores)],
               StretchPrice(candidate_scores, rules_result.ceiling_price))

\* recommend_price, steps 3 to 8, for the context updated with the policy bounds
GridSearch(context, rules_result, price_candidates, winrate) ==
  IF \E i \in 1..Len(winrate) : Raised(winrate[i])
  THEN winrate[CHOOSE i \in 1..Len(winrate) : Raised(winrate[i])]
  ELSE SelectWith(context, rules_result,
                  List([i \in 1..Len(winrate) |->
                          Candidate(context, price_candidates[i], winrate[i])]))

\* recommend_price, step 4: the win-rate results over the price grid
EvaluateGrid(context, rules_result, price_candidates) ==
  GridSearch(context, rules_result, price_candidates,
             List([i \in 1..Len(price_candidates) |->
                     WinRateAgent_execute(
                       Update(context, [proposed_price |-> price_candidates[i],
                                        target_price |-> price_candidates[i]]))]))

\* recommend_price, steps 2 and 3: the policy bounds and the price grid
WithBounds(context0, rules_result) ==
  IF Raised(rules_result) THEN rules_result
  ELSE EvaluateGrid(Update(context0, rules_result), rules_result,
                    List(Linspace(rules_result.floor_price, rules_result.ceiling_price,
                                  GridSize)))

RecommendFor(context0) == WithBounds(context0, RulesAgent_execute(context0))

\* AgentOrchestrator.recommend_price: [result, locals] or the exception
recommend_price(sku, customer_id, quantity, country, channel, currency) ==
  RecommendFor(enrich_context(sku, customer_id, quantity, country, channel, currency))

\* AgentOrchestrator.score_price for the proposed price of proposed_price cents
score_price(sku, customer_id, quantity, country, channel, currency, proposed_price) ==
  LET context == Update(enrich_context(sku, customer_id, quantity, country, channel,
                                       currency),
                        [proposed_price |-> <<proposed_price, 1>>])
      rules_result == RulesAgent_execute(context)
      winrate_result == WinRateAgent_execute(context)
      elasticity_result == ElasticityAgent_execute(context)
      cogs == context["cogs"]
      approval_band == get_approval_band(proposed_price, 1, cogs, context)
      explanation_context ==
        Update(context,
               [win_probability |-> winrate_result.win_probability,
                price_elasticity |-> elasticity_result.price_elasticity,
                approval_band |-> approval_band.band,
                expected_margin |->
                  (proposed_price - cogs) * winrate_result.win_probability])
  IN  IF Raised(rules_result) THEN rules_result
      ELSE IF Raised(winrate_result) THEN winrate_result
      ELSE [result |->
              [p_win |-> winrate_result.win_probability,
               expected_margin |->
                 Round2((proposed_price - cogs) * winrate_result.win_probability, 1000),
               approval_band |-> approval_band.band,
               reasons |-> [explanation |->
                              ExplainerAgent_execute(explanation_context).explanation,
                            win_probability |-> winrate_result.win_probability,
                            demand_change_pct |-> elasticity_result.demand_change_pct],
               agent_insights |-> [rules |-> rules_result.reasons,
                                   winrate |-> winrate_result.reasons,
                                   elasticity |-> elasticity_result.price_elasticity]],
            locals |-> [context |-> context,
                        ceiling_price |-> rules_result.ceiling_price,
                        min_margin_pct |-> rules_result.min_margin_pct,
                        explanation_context |-> explanation_context]]

\* WinRateAgent.get_win_curve over price_range
WinRateAgent_get_win_curve(context, price_range) ==
  LET results == List([i \in 1..Len(price_range) |->
                    WinRateAgent_execute(
                      Update(context, [proposed_price |-> price_range[i]]))])
  IN  IF \E i \in 1..Len(price_range) : Raised(results[i])
      THEN results[CHOOSE i \in 1..Len(price_range) : Raised(results[i])]
      ELSE [result |-> [i \in 1..Len(price_range) |->
                          [price |-> Round2(price_range[i][1], price_range[i][2]),
                           p_win |-> results[i].win_probability]],
            locals |-> [context |-> context,
                        price_contexts |->
                          [i \in 1..Len(price_range) |->
                             Update(context, [proposed_price |-> price_range[i]])]]]

\* AgentOrchestrator.get_win_curve
get_win_curve(sku, customer_id, quantity, country, channel, currency) ==
  LET context == enrich_context(sku, customer_id, quantity, country, channel, currency)
      rules_result == RulesAgent_execute(context)
  IN  IF Raised(rules_result) THEN rules_result
      ELSE WinRateAgent_get_win_curve(
             context,
             Linspace(rules_result.floor_price, rules_result.ceiling_price, CurveSize))

----------------------------------------------------------------------------
(* Boundary: api/model_service.py *)

\* recommend / score: {"error": str(e)} for a caught exception
ErrorResult(outcome) == [error |-> outcome.exc]

\* curve: [] for a caught exception
CurveErrorResult(outcome) == <<>>

----------------------------------------------------------------------------
(* Requests and reference data the operations are exercised with *)

Skus == {"SKU-001", "INVALID-SKU"}

CustomerIds == {"C-100", "C-999"}

Quantities == {1, 10, 40}

\* Proposed prices of score, in cents (0 is the invalid price)
ProposedPrices == {0, 7500, 10000, 20000}

Request(sku, customer_id, quantity) ==
  [sku |-> sku, customer_id |-> customer_id, quantity |-> quantity,
   country |-> "DE", channel |-> "Direct", currency |-> "EUR"]

Requests == {Request(s, c, q) : s \in Skus, c \in CustomerIds, q \in Quantities}

Enriched(req) ==
  enrich_context(req.sku, req.customer_id, req.quantity, req.country, req.channel,
                 req.currency)

\* RulesAgent.execute on the enriched context of a request
BoundsOfRequest(req) == RulesAgent_execute(Enriched(req))

ProductRows == <<[sku |-> "SKU-001", product_id |-> "P-001", family |-> "Gadgets"]>>

CustomerRows == <<[customer_id |-> "C-100", segment |-> "SMB", industry |-> "Tech",
                   region |-> "Americas"]>>

CogsRows(cogs) == <<[product_id |-> "P-001", cogs |-> cogs]>>

\* The three reference tables as _load_data leaves them: all read, read with
\* no cost row for the product, or all three empty after a failed read
ReferenceData ==
  {[products |-> DataFrame(ProductRows), customers |-> DataFrame(CustomerRows),
    cogs |-> DataFrame(CogsRows(c))] : c \in {8000, 3333}}
  \cup
  {[products |-> DataFrame(ProductRows), customers |-> DataFrame(CustomerRows),
    cogs |-> DataFrame(<<[product_id |-> "P-002", cogs |-> 5000]>>)],
   [products |-> EmptyDataFrame, customers |-> EmptyDataFrame, cogs |-> EmptyDataFrame]}

PolicyRow(region, family, min_margin_pct, ceiling_pct, bands_ok) ==
  [region |-> region, family |-> family, min_margin_pct |-> min_margin_pct,
   ceiling_pct |-> ceiling_pct, bands_ok |-> bands_ok,
   bands |-> <<"APPROVED", "REVIEW", "REJECT">>]

\* A policy table with the same terms for (EMEA, Widgets) and (Americas, Gadgets);
\* the other (region, family) pairs have no row
PolicyTable(min_margin_pct, ceiling_pct, bands_ok) ==
  DataFrame(<<PolicyRow("EMEA", "Widgets", min_margin_pct, ceiling_pct, bands_ok),
              PolicyRow("Americas", "Gadgets", min_margin_pct, ceiling_pct, bands_ok)>>)

\* policy.csv absent (a frame without columns), a header only, or rows:
\* the default terms, a narrow band, floor = ceiling before rounding,
\* a ceiling a few cents above the floor, a floor above the ceiling, and a
\* row whose bands do not parse
PolicyTables ==
  {EmptyDataFrame, DataFrame(<<>>),
   PolicyTable(100, 2000, TRUE), PolicyTable(100, 1500, TRUE),
   PolicyTable(250, 1250, TRUE), PolicyTable(250, 1251, TRUE),
   PolicyTable(1500, 2000, TRUE), PolicyTable(150, 1800, FALSE)}

\* LabelEncoder classes per column (sorted, as fit leaves them)
TrainedEncoders ==
  [segment |-> <<"Enterprise", "SMB">>, channel |-> <<"Direct", "Partner">>,
   region |-> <<"Americas", "EMEA">>, family |-> <<"Gadgets", "Widgets">>,
   volume_tier |-> <<"Large", "Medium", "Small", "XLarge">>,
   price_position |-> <<"Above", "Below", "Match">>]

\* Encoders fitted on data without SMB customers and without a family column
PartialEncoders ==
  [segment |-> <<"Enterprise">>, channel |-> <<"Direct", "Partner">>,
   region |-> <<"Americas", "EMEA">>,
   volume_tier |-> <<"Large", "Medium", "Small", "XLarge">>,
   price_position |-> <<"Above", "Below", "Match">>]

EncoderSets == {TrainedEncoders, PartialEncoders}

Classifier(cuts, leaves, split_col, alt) ==
  [cuts |-> cuts, leaves |-> leaves, split_col |-> split_col, alt |-> alt]

\* Trained classifiers of the system runs: constant, falling and rising
\* win probability over the margin, with and without a categorical split
Classifiers ==
  {Classifier({}, <<10000>>, "none", 0),
   Classifier({}, <<0>>, "segment", 5000),
   Classifier({0}, <<10000, 2000>>, "none", 0),
   Classifier({9}, <<8000, 2004>>, "segment", 2500),
   Classifier({0, 9}, <<2010, 0, 1000>>, "family", 6000),
   Classifier({3, 18}, <<9000, 4000, 500>>, "none", 0)}

NoResponse == [op |-> "none", args |-> <<>>, out |-> <<>>, locals |-> <<>>]

\* The exception the pipeline raised under the boundary's try, "none" otherwise
RaisedBy(outcome) == IF Raised(outcome) THEN outcome.exc ELSE "none"

Init ==
  /\ \E ref \in ReferenceData :
        /\ products_df = ref.products
        /\ customers_df = ref.customers
        /\ cogs_df = ref.cogs
  /\ policy_df \in PolicyTables
  /\ model \in Classifiers
  /\ encoders \in EncoderSets
  /\ response = NoResponse
  /\ EnterpriseInit

----------------------------------------------------------------------------
(* Operations *)

\* Requests are served one at a time: a call is taken when the caller holds
\* no response.
Idle == response = NoResponse

\* model_service.recommend
Recommend(req) ==
  LET Responded(outcome) ==
        response' = [op |-> "recommend", args |-> req,
                     out |-> IF Raised(outcome) THEN ErrorResult(outcome)
                             ELSE outcome.result,
                     locals |-> IF Raised(outcome) THEN <<>> ELSE outcome.locals,
                     raised |-> RaisedBy(outcome)]
  IN  /\ Idle
      /\ Responded(recommend_price(req.sku, req.customer_id, req.quantity, req.country,
                                   req.channel, req.currency))
      /\ encoders' = EncodersAfter(encoders, Enriched(req))
      /\ UNCHANGED <<tables, enterprise>>

\* What model_service.score returns for a request in the current state
ScoreResult(req, proposed_price) ==
  LET outcome == score_price(req.sku, req.customer_id, req.quantity, req.country,
                             req.channel, req.currency, proposed_price)
  IN  IF Raised(outcome) THEN ErrorResult(outcome) ELSE outcome.result

\* model_service.score
Score(req, proposed_price) ==
  LET Responded(outcome) ==
        response' = [op |-> "score",
                     args |-> [req |-> req, proposed_price |-> proposed_price],
                     out |-> IF Raised(outcome) THEN ErrorResult(outcome)
                             ELSE outcome.result,
                     locals |-> IF Raised(outcome) THEN <<>> ELSE outcome.locals,
                     raised |-> RaisedBy(outcome)]
  IN  /\ Idle
      /\ Responded(score_price(req.sku, req.customer_id, req.quantity, req.country,
                               req.channel, req.currency, proposed_price))
      /\ encoders' = EncodersAfter(encoders, Enriched(req))
      /\ UNCHANGED <<tables, enterprise>>

\* model_service.curve
Curve(req) ==
  LET Responded(outcome) ==
        response' = [op |-> "curve", args |-> req,
                     out |-> IF Raised(outcome) THEN CurveErrorResult(outcome)
                             ELSE outcome.result,
                     locals |-> IF Raised(outcome) THEN <<>> ELSE outcome.locals,
                     raised |-> RaisedBy(outcome)]
  IN  /\ Idle
      /\ Responded(get_win_curve(req.sku, req.customer_id, req.quantity, req.country,
                                 req.channel, req.currency))
      /\ encoders' = EncodersAfter(encoders, Enriched(req))
      /\ UNCHANGED <<tables, enterprise>>

\* RulesAgent.execute called on an enriched context (the bounds operation);
\* an exception reaches the caller
Bounds(req) ==
  /\ Idle
  /\ response' = [op |-> "bounds", args |-> req,
                  out |-> RulesAgent_execute(Enriched(req)),
                  locals |-> [context |-> Enriched(req)]]
  /\ UNCHANGED <<persistent, enterprise>>

\* RulesAgent.get_approval_band called on an enriched context
ApprovalBand(req, proposed_price) ==
  /\ Idle
  /\ response' = [op |-> "approval_band",
                  args |-> [req |-> req, proposed_price |-> proposed_price],
                  out |-> get_approval_band(proposed_price, 1, Enriched(req)["cogs"],
                                            Enriched(req)),
                  locals |-> [context |-> Enriched(req)]]
  /\ UNCHANGED <<persistent, enterprise>>

\* The caller takes the response; the next request can be served.
Return ==
  /\ ~Idle
  /\ response' = NoResponse
  /\ UNCHANGED <<persistent, enterprise>>

Next ==
  \/ \E req \in Requests : Recommend(req)
  \/ \E req \in Requests, p \in ProposedPrices : Score(req, p)
  \/ \E req \in Requests : Curve(req)
  \/ \E req \in Requests : Bounds(req)
  \/ \E req \in Requests, p \in ProposedPrices : ApprovalBand(req, p)
  \/ Return

Spec == Init /\ [][Next]_vars

----------------------------------------------------------------------------
(* The grid search under one request and every classifier of a family *)

\* Largest number of thresholds of a classifier of the family
MaxCuts == 2

CutPositions == {0, 1, 5, 9, 10, 17, 18}

\* Leaf probabilities in ten-thousandths: 0.2004 rounds to 0.200
LeafLevels == {0, 2004, 2010, 10000}

GridClassifiers ==
  {Classifier(cuts, leaves, "none", 0) :
     <<cuts, leaves>> \in
       {cl \in UNION {{c} \X [1..(Cardinality(c) + 1) -> LeafLevels] :
                        c \in {c \in SUBSET CutPositions : Cardinality(c) <= MaxCuts}} :
          \A i \in 1..(Len(cl[2]) - 1) : cl[2][i] # cl[2][i + 1]}}

GridRequest == Request("INVALID-SKU", "C-999", 10)

InitGrid ==
  /\ products_df = DataFrame(ProductRows)
  /\ customers_df = DataFrame(CustomerRows)
  /\ cogs_df = DataFrame(CogsRows(8000))
  /\ policy_df \in {DataFrame(<<>>), PolicyTable(100, 1500, TRUE)}
  /\ model \in GridClassifiers
  /\ encoders = TrainedEncoders
  /\ response = NoResponse
  /\ EnterpriseInit

NextGrid ==
  \/ Recommend(GridRequest)
  \/ Return

SpecGrid == InitGrid /\ [][NextGrid]_vars

----------------------------------------------------------------------------
(* The grid search with its candidates evaluated in another order *)

\* Orders of evaluation of the GridSize candidates: order[i] is the grid
\* point evaluated (and appended to candidate_scores) in i-th place.  The
\* loop of recommend_price is the first one; the others are the grid from
\* the top, the upper half before the lower half, and neighbours swapped.
EvaluationOrders ==
  {[i \in 1..GridSize |-> i],
   [i \in 1..GridSize |-> GridSize + 1 - i],
   [i \in 1..GridSize |-> ((i + 9) % GridSize) + 1],
   [i \in 1..GridSize |-> IF i % 2 = 1 THEN i + 1 ELSE i - 1]}

\* recommend_price with the loop of step 4 running over the grid in the given
\* order; the steps before and after it are those of recommend_price
recommend_price_in_order(req, order) ==
  LET context0 == Enriched(req)
      rules_result == RulesAgent_execute(context0)
      grid == IF Raised(rules_result) THEN <<>>
              ELSE Linspace(rules_result.floor_price, rules_result.ceiling_price,
                            GridSize)
  IN  IF Raised(rules_result) THEN rules_result
      ELSE EvaluateGrid(Update(context0, rules_result), rules_result,
                        List([i \in 1..GridSize |-> grid[order[i]]]))

OrderPolicyTables ==
  {DataFrame(<<>>), PolicyTable(100, 1500, TRUE), PolicyTable(250, 1250, TRUE)}

InitOrder ==
  /\ products_df = DataFrame(ProductRows)
  /\ customers_df = DataFrame(CustomerRows)
  /\ \E c \in {8000, 3333} : cogs_df = DataFrame(CogsRows(c))
  /\ policy_df \in OrderPolicyTables
  /\ model \in Classifiers
  /\ encoders = TrainedEncoders
  /\ response = NoResponse
  /\ EnterpriseInit

RecommendInOrder(req, order) ==
  LET Responded(outcome) ==
        response' = [op |-> "recommend_in_order",
                     args |-> [req |-> req, order |-> order],
                     out |-> IF Raised(outcome) THEN ErrorResult(outcome)
                             ELSE outcome.result,
                     locals |-> IF Raised(outcome) THEN <<>> ELSE outcome.locals,
                     raised |-> RaisedBy(outcome)]
  IN  /\ Idle
      /\ Responded(recommend_price_in_order(req, order))
      /\ encoders' = EncodersAfter(encoders, Enriched(req))
      /\ UNCHANGED <<tables, enterprise>>

NextOrder ==
  \/ \E req \in Requests, order \in EvaluationOrders : RecommendInOrder(req, order)
  \/ Return

SpecOrder == InitOrder /\ [][NextOrder]_vars

----------------------------------------------------------------------------
(* The operations stage by stage: a request can be abandoned between stages *)

\* The stages of a call, in the order the orchestrator runs them
StagesOf(call) ==
  CASE call = "recommend" -> <<"enrich", "rules", "grid", "final", "compile">>
    [] call = "score" -> <<"enrich", "rules", "winrate", "elasticity", "compile">>
    [] call = "curve" -> <<"enrich", "rules", "curve">>

\* The stages that run WinRateAgent.execute
CallsWinRate(stage) == stage \in {"grid", "final", "winrate", "curve"}

\* The outcome of the whole call in the current state
StagedOutcome(call, args) ==
  CASE call = "recommend" ->
         recommend_price(args.req.sku, args.req.customer_id, args.req.quantity,
                         args.req.country, args.req.channel, args.req.currency)
    [] call = "score" ->
         score_price(args.req.sku, args.req.customer_id, args.req.quantity,
                     args.req.country, args.req.channel, args.req.currency,
                     args.proposed_price)
    [] call = "curve" ->
         get_win_curve(args.req.sku, args.req.customer_id, args.req.quantity,
                       args.req.country, args.req.channel, args.req.currency)

\* What the boundary returns for the outcome of a call
StagedResult(call, outcome) ==
  IF Raised(outcome)
  THEN IF call = "curve" THEN CurveErrorResult(outcome) ELSE ErrorResult(outcome)
  ELSE outcome.result

\* The exception of the call propagates from this stage: the rules agent
\* raises KeyError, the first inference raises ZeroDivisionError
RaisesAt(outcome, stage) ==
  /\ Raised(outcome)
  /\ \/ outcome.exc = "KeyError" /\ stage = "rules"
     \/ outcome.exc = "ZeroDivisionError" /\ stage \in {"grid", "winrate", "curve"}

\* What a stage leaves in the local variables of the call
StageValue(call, args, outcome, stage) ==
  IF Raised(outcome) THEN <<>>
  ELSE CASE stage = "rules" -> BoundsOfRequest(args.req)
         [] stage = "grid" -> outcome.locals.candidate_scores
         [] stage = "final" -> outcome.result.p_win_at_target
         [] stage = "winrate" -> outcome.result.p_win
         [] stage = "elasticity" -> outcome.result.agent_insights.elasticity
         [] stage = "curve" -> Len(outcome.result)
         [] stage = "compile" -> DOMAIN outcome.result

StagedProposedPrices == {0, 10000}

StagedCalls ==
  {[call |-> "recommend", args |-> [req |-> req]] : req \in Requests}
  \cup {[call |-> "curve", args |-> [req |-> req]] : req \in Requests}
  \cup {[call |-> "score", args |-> [req |-> req, proposed_price |-> p]] :
          req \in Requests, p \in StagedProposedPrices}

InitStages ==
  /\ products_df = DataFrame(ProductRows)
  /\ customers_df = DataFrame(CustomerRows)
  /\ cogs_df = DataFrame(CogsRows(8000))
  /\ policy_df \in {EmptyDataFrame, DataFrame(<<>>), PolicyTable(100, 1500, TRUE)}
  /\ model \in {Classifier({9}, <<8000, 2004>>, "segment", 2500),
                Classifier({0, 9}, <<2010, 0, 1000>>, "family", 6000)}
  /\ encoders \in EncoderSets
  /\ response = NoResponse
  /\ EnterpriseInit

\* The call has returned or raised
Finished ==
  /\ response.op = "staged"
  /\ \/ response.raised # "none"
     \/ response.stage = Len(StagesOf(response.call))

\* A call starts: _enrich_context
BeginCall(c) ==
  /\ Idle
  /\ response' = [op |-> "staged", call |-> c.call, args |-> c.args, stage |-> 1,
                  out |-> <<>>, locals |-> [enrich |-> Enriched(c.args.req)],
                  raised |-> "none"]
  /\ UNCHANGED <<persistent, enterprise>>

\* The call runs its next stage
NextStage ==
  LET Ran(n, stage, outcome, raises) ==
        /\ response' =
              [response EXCEPT
                 !.stage = n,
                 !.raised = IF raises THEN outcome.exc ELSE "none",
                 !.out = IF raises \/ n = Len(StagesOf(response.call))
                         THEN StagedResult(response.call, outcome) ELSE <<>>,
                 !.locals = (stage :> StageValue(response.call, response.args,
                                                 outcome, stage)) @@ @]
        /\ encoders' = IF CallsWinRate(stage)
                       THEN EncodersAfter(encoders, response.locals.enrich)
                       ELSE encoders
      Staged(n, stage, outcome) == Ran(n, stage, outcome, RaisesAt(outcome, stage))
      Step(n) == Staged(n, StagesOf(response.call)[n],
                        StagedOutcome(response.call, response.args))
  IN  /\ response.op = "staged"
      /\ ~Finished
      /\ Step(response.stage + 1)
      /\ UNCHANGED <<tables, enterprise>>

\* The caller abandons the call between two stages
Abandon ==
  /\ response.op = "staged"
  /\ ~Finished
  /\ response' = NoResponse
  /\ UNCHANGED <<persistent, enterprise>>

\* The caller takes the result of a finished call
Deliver ==
  /\ Finished
  /\ Return

NextStages ==
  \/ \E c \in StagedCalls : BeginCall(c)
  \/ NextStage
  \/ Abandon
  \/ Deliver

SpecStages == InitStages /\ [][NextStages]_vars

----------------------------------------------------------------------------
(* The agents called on their own, on contexts a caller may pass *)

AgentSegments == {"Enterprise", "SMB", "Government"}

AgentRegions == {"EMEA", "Americas", "APAC"}

AgentQuantities == {1, 10, 20, 40}

\* current_price: absent (the agent's default of 100), 0 and 100.00
CurrentPrices == {<<0, 1>>, <<10000, 1>>}

AgentPrices == {<<0, 1>>, <<9000, 1>>, <<11000, 1>>, <<20000, 1>>}

\* cogs of a context, in cents
AgentCogs == {8000, 3333}

\* round() of the context's elasticity or demand change falls on an exact
\* decimal tie, which the binary float decides
ElasticityTie(context) ==
  LET adjusted == AdjustedElasticity(context["customer_segment"], context["region"],
                                     context["quantity"])
      current_price == Get(context, "current_price", <<10000, 1>>)
      xn == IF current_price[1] > 0 THEN context["proposed_price"][1] - current_price[1]
            ELSE 0
      xd == IF current_price[1] > 0 THEN current_price[1] ELSE 1
  IN  \/ adjusted % 200 = 100
      \/ (adjusted * xn) % (20 * xd) = 10 * xd

ElasticityContexts ==
  {context \in
     {[customer_segment |-> s, region |-> r, quantity |-> q, proposed_price |-> p] :
        s \in AgentSegments, r \in AgentRegions, q \in AgentQuantities, p \in AgentPrices}
     \cup
     {[customer_segment |-> s, region |-> r, quantity |-> q, proposed_price |-> p,
       current_price |-> c] :
        s \in AgentSegments, r \in AgentRegions, q \in AgentQuantities, p \in AgentPrices,
        c \in CurrentPrices}
     \cup
     {[customer_segment |-> s, region |-> r, quantity |-> q, proposed_price |-> p,
       current_price |-> <<10000, 1>>, cogs |-> k] :
        s \in AgentSegments, r \in AgentRegions, q \in AgentQuantities, p \in AgentPrices,
        k \in AgentCogs} :
     ~ElasticityTie(context)}

InitAgents ==
  /\ products_df = DataFrame(ProductRows)
  /\ customers_df = DataFrame(CustomerRows)
  /\ cogs_df = DataFrame(CogsRows(8000))
  /\ policy_df = DataFrame(<<>>)
  /\ model = Classifier({9}, <<8000, 2004>>, "segment", 2500)
  /\ encoders \in EncoderSets
  /\ response = NoResponse
  /\ EnterpriseInit

\* ElasticityAgent.execute
ElasticityCall(context) ==
  /\ Idle
  /\ response' = [op |-> "elasticity", args |-> context,
                  out |-> ElasticityAgent_execute(context), locals |-> <<>>]
  /\ UNCHANGED <<persistent, enterprise>>

\* Win probabilities (thousandths) and elasticities (hundredths) around the
\* thresholds of _calculate_confidence, and configured band lists
ConfidenceWinRates == {0, 400, 401, 600, 601, 1000}

ConfidenceElasticities == {-250, -200, -199, -114, 0}

BandLists ==
  {DefaultBands, <<"REVIEW", "REJECT">>, <<"PRE_APPROVED", "REJECT">>, <<>>}

\* AgentOrchestrator._calculate_confidence
ConfidenceCall(win_probability, price_elasticity, approval_bands) ==
  /\ Idle
  /\ response' = [op |-> "confidence",
                  args |-> [win_probability |-> win_probability,
                            price_elasticity |-> price_elasticity,
                            approval_bands |-> approval_bands],
                  out |-> calculate_confidence(
                            [win_probability |-> win_probability],
                            [price_elasticity |-> price_elasticity],
                            [approval_bands |-> approval_bands]),
                  locals |-> <<>>]
  /\ UNCHANGED <<persistent, enterprise>>

\* Quantities at and around the bin edges of training
BucketQuantities == {1, 5, 6, 15, 16, 30, 31, 100, 101}

\* price / competitor_price ratios in tenths, at and around the bin edges
BucketRatios == {1, 8, 9, 10, 11, 12, 20, 21}

\* The categorical buckets of one (quantity, ratio) pair, as _load_data
\* builds them for training and as execute builds them for inference
BucketCall(quantity, ratio) ==
  /\ Idle
  /\ response' = [op |-> "buckets",
                  args |-> [quantity |-> quantity, ratio |-> <<ratio, 10>>],
                  out |-> [volume_tier |-> VolumeTier(quantity),
                           price_position |-> PricePosition(ratio, 10),
                           train_volume_tier |-> TrainVolumeTier(quantity),
                           train_price_position |-> TrainPricePosition(ratio, 10)],
                  locals |-> <<>>]
  /\ UNCHANGED <<persistent, enterprise>>

\* Contexts of a win-probability inference: categorical values the encoders
\* were fitted on and values they were not (Government, APAC, Online, Tools)
WinRateContexts ==
  {[customer_segment |-> s, region |-> r, channel |-> c, product_family |-> f,
    quantity |-> 10, cogs |-> 8000, competitor_price |-> CompetitorPrice(8000),
    proposed_price |-> p] :
     s \in AgentSegments, r \in AgentRegions, c \in {"Direct", "Online"},
     f \in {"Widgets", "Tools"}, p \in {<<9000, 1>>, <<20000, 1>>}}

\* WinRateAgent.execute
WinRateCall(context) ==
  /\ Idle
  /\ response' = [op |-> "winrate", args |-> context,
                  out |-> WinRateAgent_execute(context), locals |-> <<>>]
  /\ encoders' = EncodersAfter(encoders, context)
  /\ UNCHANGED <<tables, enterprise>>

NextAgents ==
  \/ \E context \in ElasticityContexts : ElasticityCall(context)
  \/ \E context \in WinRateContexts : WinRateCall(context)
  \/ \E q \in BucketQuantities, r \in BucketRatios : BucketCall(q, r)
  \/ \E w \in ConfidenceWinRates, e \in ConfidenceElasticities, b \in BandLists :
        ConfidenceCall(w, e, b)
  \/ Return

SpecAgents == InitAgents /\ [][NextAgents]_vars

----------------------------------------------------------------------------
(* The enterprise API (enterprise_api.py) over the demo engine              *)
(* (demo_agents.py).  Prices are exact fractions <<num, den>> of cents;     *)
(* probabilities, margins and scores are exact fractions <<num, den>>.      *)
(* The clock counts half hours.  processing_time_ms and job_id (a wall-     *)
(* clock measurement and a fresh uuid) are left out of the responses, and   *)
(* sentences are kept without their formatted numbers.                      *)

\* a < b for fractions with positive denominators (continued-fraction
\* comparison: no product of numerators and denominators is formed)
RECURSIVE FracLess(_, _)
FracLess(a, b) == LET qa == a[1] \div a[2]  qb == b[1] \div b[2]  ra == a[1] % a[2]  rb == b[1] % b[2] IN IF qa # qb THEN qa < qb ELSE IF rb = 0 THEN FALSE ELSE IF ra = 0 THEN TRUE ELSE FracLess(<<b[2], rb>>, <<a[2], ra>>)

\* a * b and a - b for fractions, reduced
FracMul(a, b) == LET x == Reduce(a[1], b[2])  y == Reduce(b[1], a[2]) IN Reduce(x[1] * y[1], x[2] * y[2])

FracSub(a, b) == Reduce(a[1] * b[2] - b[1] * a[2], a[2] * b[2])

\* sorted(set(candidates))
RECURSIVE SortedPrices(_)
SortedPrices(S) == IF S = {} THEN <<>> ELSE LET m == CHOOSE x \in S : \A y \in S : ~FracLess(y, x) IN <<m>> \o SortedPrices(S \ {m})

\* AgentOrchestrator.product_data (cents), with the defaults of dict.get
product_data(product_id) ==
  CASE product_id = "PROD-001" -> [base_price |-> 10000, cost |-> 6000, family |-> "Software"]
    [] product_id = "PROD-002" -> [base_price |-> 20000, cost |-> 12000, family |-> "Hardware"]
    [] product_id = "PROD-003" -> [base_price |-> 5000, cost |-> 3000, family |-> "Service"]
    [] OTHER -> [base_price |-> 10000, cost |-> 6000]

\* demo RulesAgent.process: volume tier and price bounds
RulesAgent_process(context) ==
  LET quantity == Get(context, "quantity", 1)
      base_price == Get(context, "base_price", 10000)
      volume_tier == IF quantity <= 10 THEN "small" ELSE IF quantity <= 100 THEN "medium" ELSE "large"
      volume_discount == IF quantity <= 10 THEN <<0, 1>> ELSE IF quantity <= 100 THEN <<1, 20>> ELSE <<1, 10>>
  IN  [volume_tier |-> volume_tier,
       volume_discount |-> volume_discount,
       min_price |-> Reduce(base_price * 7, 10),
       max_price |-> Reduce(base_price * 12, 10)]

\* AgentOrchestrator._generate_price_candidates
generate_price_candidates(context) ==
  LET InBounds(p) == ~FracLess(p, context["min_price"]) /\ ~FracLess(context["max_price"], p)
      Kept(candidates) == {candidates[i] : i \in {j \in 1..4 : InBounds(candidates[j])}}
      Candidates(anchor_price) ==
        Kept(<<anchor_price, FracMul(anchor_price, <<19, 20>>), FracMul(anchor_price, <<9, 10>>), FracMul(anchor_price, <<21, 20>>)>>)
  IN  SortedPrices(Candidates(FracMul(<<context["base_price"], 1>>, FracSub(<<1, 1>>, context["volume_discount"])))
                   \cup {context["min_price"], context["max_price"]})

\* demo WinRateAgent.process: the linear score, clamped win probability and
\* confidence of a proposed price
WinRateAgent_process(context) ==
  LET bonus == (IF Get(context, "customer_segment", "Enterprise") = "Enterprise" THEN 3 ELSE 0)
               - (IF Get(context, "customer_segment", "Enterprise") = "SMB" THEN 1 ELSE 0)
               + (IF Get(context, "volume_tier", "small") = "large" THEN 4 ELSE 0)
               + (IF Get(context, "region", "US") = "US" THEN 1 ELSE 0)
      Capped(sigmoid) == IF FracLess(<<19, 20>>, sigmoid) THEN <<19, 20>> ELSE sigmoid
      Floored(capped) == IF FracLess(capped, <<1, 10>>) THEN <<1, 10>> ELSE capped
      Confidence(strength) == IF FracLess(<<9, 10>>, strength) THEN <<9, 10>> ELSE strength
      Result(score, magnitude) ==
        [win_probability |-> Floored(Capped(Reduce(score[2], score[2] + magnitude))),
         confidence |-> Confidence(Reduce(5 * score[2] + 2 * magnitude, 10 * score[2])),
         model_score |-> score]
      Scored(score) == Result(score, IF score[1] < 0 THEN -score[1] ELSE score[1])
      Ratio(price_ratio) == Scored(Reduce(bonus * price_ratio[2] - 8 * (price_ratio[2] - price_ratio[1]), 10 * price_ratio[2]))
      Priced(proposed_price, base_price) == Ratio(Reduce(proposed_price[1], proposed_price[2] * base_price))
  IN  Priced(Get(context, "proposed_price", <<10000, 1>>), Get(context, "base_price", 10000))

\* demo ElasticityAgent.process: revenue impact of a proposed price at the
\* fixed elasticity -1.5
ElasticityAgent_process(context) ==
  LET Result(price_change, demand_change, revenue_impact) ==
        [price_change_pct |-> price_change,
         demand_change_pct |-> demand_change,
         revenue_impact_pct |-> revenue_impact,
         optimal_price_indicator |-> IF revenue_impact[1] > 0 THEN "increase" ELSE "decrease"]
      Demand(x, price_change, demand_change) ==
        Result(price_change, demand_change,
               FracSub(FracMul(x, <<demand_change[1] + demand_change[2], demand_change[2]>>), <<1, 1>>))
      Change(x, price_change) == Demand(x, price_change, FracMul(<<-3, 2>>, price_change))
      Ratio(x) == Change(x, FracSub(x, <<1, 1>>))
      Priced(proposed_price, base_price) == Ratio(Reduce(proposed_price[1], proposed_price[2] * base_price))
  IN  Priced(Get(context, "proposed_price", <<10000, 1>>), Get(context, "base_price", 10000))

\* demo ExplainerAgent.process: the sentences of the explanation
ExplainerAgent_process(context) ==
  LET Explained(win_probability, volume_tier, revenue_impact, discount_pct) ==
        [explanation |->
           (IF FracLess(<<1, 10>>, discount_pct) THEN <<"Significant discount from list price">>
            ELSE IF discount_pct[1] > 0 THEN <<"Modest discount applied">>
            ELSE <<"Price at or above list price">>)
           \o (IF volume_tier = "large" THEN <<"Large volume tier qualifies for additional discounting">>
               ELSE IF volume_tier = "medium" THEN <<"Medium volume provides some pricing flexibility">>
               ELSE <<>>)
           \o (IF FracLess(<<7, 10>>, win_probability) THEN <<"High win probability indicates competitive positioning">>
               ELSE IF FracLess(win_probability, <<4, 10>>) THEN <<"Lower win probability suggests price may be too aggressive">>
               ELSE <<>>)
           \o (IF revenue_impact[1] > 0 THEN <<"Expected to increase revenue">>
               ELSE IF FracLess(revenue_impact, <<-1, 20>>) THEN <<"May reduce revenue">>
               ELSE <<>>),
         key_factors |-> [volume |-> volume_tier, win_rate |-> win_probability,
                          discount |-> discount_pct, revenue_impact |-> revenue_impact]]
      Discount(recommended_price, base_price) ==
        FracSub(<<1, 1>>, Reduce(recommended_price[1], recommended_price[2] * base_price))
  IN  Explained(Get(context, "win_probability", <<1, 2>>),
                Get(context, "volume_tier", "small"),
                Get(context, "revenue_impact_pct", <<0, 1>>),
                Discount(Get(context, "recommended_price", <<0, 1>>), Get(context, "base_price", 10000)))

\* The candidate loop of get_price_recommendation from candidate i on: a
\* candidate replaces the best one only with a strictly greater expected margin
RECURSIVE BestCandidate(_, _, _, _)
BestCandidate(context, price_candidates, i, best) ==
  LET Better(candidate_price, candidate_context, expected_margin) ==
        IF FracLess(best.best_score, expected_margin)
        THEN [best_score |-> expected_margin, best_price |-> candidate_price, best_context |-> candidate_context]
        ELSE best
      Margin(candidate_price) == Reduce(candidate_price[1] - context["cost"] * candidate_price[2], candidate_price[1])
      Scored(candidate_price, candidate_context) ==
        Better(candidate_price, candidate_context, FracMul(Margin(candidate_price), candidate_context["win_probability"]))
      WithWinRate(candidate_price, with_winrate) ==
        Scored(candidate_price, Update(with_winrate, ElasticityAgent_process(with_winrate)))
      WithPrice(candidate_price, with_price) ==
        WithWinRate(candidate_price, Update(with_price, WinRateAgent_process(with_price)))
      Evaluated(candidate_price) == WithPrice(candidate_price, Update(context, [proposed_price |-> candidate_price]))
  IN  IF i > Len(price_candidates) THEN best
      ELSE BestCandidate(context, price_candidates, i + 1, Evaluated(price_candidates[i]))

\* demo AgentOrchestrator.get_price_recommendation
get_price_recommendation(request) ==
  LET Compiled(best, best_context, explanation_result) ==
        [recommended_price |-> best.best_price,
         confidence |-> Get(best_context, "confidence", <<1, 2>>),
         win_probability |-> Get(best_context, "win_probability", <<1, 2>>),
         explanation |-> explanation_result.explanation,
         factors |-> [volume_tier |-> Get(best_context, "volume_tier", "small"),
                      expected_margin |-> best.best_score,
                      revenue_impact |-> Get(best_context, "revenue_impact_pct", <<0, 1>>),
                      key_factors |-> explanation_result.key_factors]]
      Explained(best, best_context) == Compiled(best, best_context, ExplainerAgent_process(best_context))
      Chosen(best) == Explained(best, Update(best.best_context, [recommended_price |-> best.best_price]))
      Searched(context, price_candidates) ==
        Chosen(BestCandidate(context, price_candidates, 1,
                             [best_score |-> <<-1, 1>>,
                              best_price |-> IF Len(price_candidates) > 0 THEN price_candidates[1] ELSE <<context["base_price"], 1>>,
                              best_context |-> context]))
      Ruled(context) == Searched(context, generate_price_candidates(context))
      Started(initial) == Ruled(Update(initial, RulesAgent_process(initial)))
  IN  Started([product_id |-> request.product_id,
               quantity |-> request.quantity,
               customer_id |-> request.customer_id,
               product_family |-> request.product_family,
               region |-> request.region,
               customer_segment |-> request.customer_segment,
               base_price |-> product_data(request.product_id).base_price,
               cost |-> product_data(request.product_id).cost])

\* The largest integer the model converts to a float; a quantity above it
\* stands for the integers beyond the range of a double (about 1.8e308),
\* whose product with a float raises OverflowError
FloatMax == 1000000

\* EnterpriseOrchestrator._generate_business_rationale
generate_business_rationale(request, margin_analysis, risk_assessment) ==
  <<"Pricing aligns with " \o request.pricing_strategy \o " strategy">>
  \o (IF FracLess(<<3, 10>>, margin_analysis.margin_pct) THEN <<"Strong margin supports profitability targets">>
      ELSE IF FracLess(<<3, 20>>, margin_analysis.margin_pct) THEN <<"Healthy margin balances competitiveness and profitability">>
      ELSE <<"Competitive margin prioritizes market penetration">>)
  \o (IF request.customer_tier = "strategic" THEN <<"Strategic customer status supports relationship investment">>
      ELSE IF request.customer_tier = "smb" THEN <<"SMB pricing optimized for volume and efficiency">>
      ELSE <<>>)
  \o (IF risk_assessment.overall_risk = "low" THEN <<"Low risk profile supports standard pricing approach">> ELSE <<>>)

\* EnterpriseOrchestrator._add_enterprise_features (the price multiplier in
\* tenths); the contribution margin multiplies a float by request.quantity
add_enterprise_features(request, base_rec) ==
  LET price_multiplier == CASE request.pricing_strategy = "premium" -> 12
                            [] request.pricing_strategy = "penetration" -> 8
                            [] request.pricing_strategy = "competitive" -> 10
                            [] OTHER -> 11
      Enhanced(adjusted_price, margin_analysis, risk_assessment) ==
        [recommended_price |-> adjusted_price,
         confidence |-> base_rec.confidence,
         win_probability |-> base_rec.win_probability,
         price_range |-> [min |-> FracMul(adjusted_price, <<17, 20>>),
                          max |-> FracMul(adjusted_price, <<23, 20>>),
                          optimal |-> adjusted_price],
         margin_analysis |-> margin_analysis,
         risk_assessment |-> risk_assessment,
         agent_decisions |-> base_rec.factors,
         explanation |-> base_rec.explanation,
         business_rationale |-> generate_business_rationale(request, margin_analysis, risk_assessment)]
      Risk(risk_factors) ==
        [overall_risk |-> IF Len(risk_factors) = 0 THEN "low" ELSE "medium",
         risk_factors |-> risk_factors]
      Margin(cost, adjusted_price, margin_pct) ==
        [cost |-> cost,
         margin_pct |-> margin_pct,
         expected_margin |-> FracMul(margin_pct, base_rec.win_probability),
         contribution_margin |-> Reduce((adjusted_price[1] - cost * adjusted_price[2]) * request.quantity, adjusted_price[2])]
      Adjusted(cost, adjusted_price) ==
        Enhanced(adjusted_price,
                 Margin(cost, adjusted_price, Reduce(adjusted_price[1] - cost * adjusted_price[2], adjusted_price[1])),
                 Risk(When(request.customer_tier = "smb", "customer_size") \o When(request.urgency_level = "critical", "deal_pressure")))
  IN  IF request.quantity > FloatMax THEN Raise("OverflowError")
      ELSE Adjusted(product_data(request.product_id).cost, FracMul(base_rec.recommended_price, <<price_multiplier, 10>>))

\* timedelta(hours=1) on the half-hour clock
CacheTTL == 2

\* f"{product_id}:{customer_id}:{quantity}"; the identifiers of the model
\* hold no colon, so the key determines its three parts
CacheKey(request) == <<request.product_id, request.customer_id, request.quantity>>

\* The response built on a cache miss at time t, or the exception raised
FreshRecommendation(request, t) ==
  LET Response(enhanced_result) ==
        IF Raised(enhanced_result) THEN enhanced_result
        ELSE [quote_id |-> request.quote_id,
              recommended_price |-> enhanced_result.recommended_price,
              confidence |-> enhanced_result.confidence,
              win_probability |-> enhanced_result.win_probability,
              price_range |-> enhanced_result.price_range,
              margin_analysis |-> enhanced_result.margin_analysis,
              risk_assessment |-> enhanced_result.risk_assessment,
              agent_decisions |-> enhanced_result.agent_decisions,
              explanation |-> enhanced_result.explanation,
              business_rationale |-> enhanced_result.business_rationale,
              model_version |-> "2.0.0",
              cache_hit |-> FALSE,
              expires_at |-> t + CacheTTL]
      base_request == [product_id |-> request.product_id,
                       quantity |-> request.quantity,
                       customer_id |-> request.customer_id,
                       product_family |-> "Software",
                       customer_segment |-> request.customer_tier,
                       region |-> request.region]
  IN  Response(add_enterprise_features(request, get_price_recommendation(base_request)))

\* EnterpriseOrchestrator.get_enhanced_recommendation on the cache c at time
\* t: what it returns or raises, the cache it leaves, and the records it
\* appends to the analytics store
get_enhanced_recommendation(request, c, t) ==
  LET Hit(cache_key, marked) ==
        [result |-> marked[cache_key], cache |-> marked, stored |-> <<>>, hit |-> TRUE]
      Miss(cache_key, fresh) ==
        IF Raised(fresh) THEN [result |-> fresh, cache |-> c, stored |-> <<>>, hit |-> FALSE]
        ELSE [result |-> fresh,
              cache |-> (cache_key :> fresh) @@ c,
              stored |-> <<[timestamp |-> t, quote_id |-> request.quote_id, recommendation |-> fresh]>>,
              hit |-> FALSE]
      Keyed(cache_key) ==
        IF cache_key \in DOMAIN c /\ c[cache_key].expires_at > t
        THEN Hit(cache_key, [c EXCEPT ![cache_key] = [@ EXCEPT !.cache_hit = TRUE]])
        ELSE Miss(cache_key, FreshRecommendation(request, t))
  IN  Keyed(CacheKey(request))

\* The loop over the gathered results, an exception dropped instead of
\* reported
RECURSIVE CollectGatheredResultsOnly(_, _, _)
CollectGatheredResultsOnly(completed_results, i, acc) ==
  IF i > Len(completed_results) THEN acc
  ELSE CollectGatheredResultsOnly(completed_results, i + 1,
         IF Raised(completed_results[i]) THEN acc
         ELSE [acc EXCEPT !.results = Append(@, completed_results[i]), !.result_indexes = Append(@, i - 1)])

\* The loop over the gathered results of the parallel mode: an exception goes
\* to the errors with its index, anything else to the results
RECURSIVE CollectGathered(_, _, _)
CollectGathered(completed_results, i, acc) ==
  IF i > Len(completed_results) THEN acc
  ELSE CollectGathered(completed_results, i + 1,
         IF Raised(completed_results[i])
         THEN [acc EXCEPT !.errors = Append(@, [request_index |-> i - 1, error |-> completed_results[i].exc])]
         ELSE [acc EXCEPT !.results = Append(@, completed_results[i]), !.result_indexes = Append(@, i - 1)])

MaxNow == 3

MaxBatch == 3

\* An enterprise quote request with the defaults of its optional fields
QuoteQ1 ==
  [quote_id |-> "Q-1", product_id |-> "PROD-001", quantity |-> 5, customer_id |-> "CUST-001",
   customer_tier |-> "enterprise", pricing_strategy |-> "value_based", urgency_level |-> "normal", region |-> "US"]

\* The requests of the single endpoint: the quote, the quotes that differ
\* from it in one field outside the cache key, a quote of another quantity
\* and a quote whose quantity no float holds
EnterpriseRequests ==
  {QuoteQ1,
   [QuoteQ1 EXCEPT !.quote_id = "Q-2"],
   [QuoteQ1 EXCEPT !.pricing_strategy = "penetration"],
   [QuoteQ1 EXCEPT !.customer_tier = "smb"],
   [QuoteQ1 EXCEPT !.region = "EMEA"],
   [QuoteQ1 EXCEPT !.urgency_level = "critical"],
   [QuoteQ1 EXCEPT !.quantity = 150],
   [QuoteQ1 EXCEPT !.quantity = FloatMax + 1]}

\* The requests of the bulk jobs: two quotes with one cache key, a quote of
\* another quantity, and a quote whose quantity no float holds
BulkRequests ==
  {QuoteQ1,
   [quote_id |-> "Q-2", product_id |-> "PROD-001", quantity |-> 5, customer_id |-> "CUST-001",
    customer_tier |-> "smb", pricing_strategy |-> "penetration", urgency_level |-> "critical", region |-> "EMEA"],
   [quote_id |-> "Q-3", product_id |-> "PROD-002", quantity |-> 150, customer_id |-> "CUST-002",
    customer_tier |-> "strategic", pricing_strategy |-> "premium", urgency_level |-> "normal", region |-> "US"],
   [quote_id |-> "Q-4", product_id |-> "PROD-003", quantity |-> FloatMax + 1, customer_id |-> "CUST-001",
    customer_tier |-> "enterprise", pricing_strategy |-> "competitive", urgency_level |-> "normal", region |-> "US"]}

InitEnterprise ==
  /\ products_df = EmptyDataFrame
  /\ customers_df = EmptyDataFrame
  /\ cogs_df = EmptyDataFrame
  /\ policy_df = EmptyDataFrame
  /\ model = <<>>
  /\ encoders = <<>>
  /\ response = NoResponse
  /\ EnterpriseInit

\* POST /api/v2/pricing/recommend: an exception becomes a 500 response
EnhancedRecommend(request) ==
  LET Served(outcome) ==
        /\ response' = [op |-> "enhanced_recommend", args |-> request,
                        out |-> IF Raised(outcome.result)
                                THEN [status_code |-> 500, detail |-> "Error generating recommendation: " \o outcome.result.exc]
                                ELSE outcome.result,
                        locals |-> [cache_hit |-> outcome.hit, now |-> now],
                        raised |-> RaisedBy(outcome.result)]
        /\ cache' = outcome.cache
        /\ analytics_store' = analytics_store \o outcome.stored
  IN  /\ Idle
      /\ job = NoJob
      /\ Served(get_enhanced_recommendation(request, cache, now))
      /\ UNCHANGED <<persistent, now, job>>

\* The wall clock advances between two requests
Tick ==
  /\ Idle
  /\ now < MaxNow
  /\ now' = now + 1
  /\ UNCHANGED <<persistent, response, cache, analytics_store, job>>

\* POST /api/v2/pricing/bulk is entered: no result and no error yet
BeginBulk(requests, parallel_processing) ==
  /\ Idle
  /\ job = NoJob
  /\ job' = [phase |-> "running", parallel_processing |-> parallel_processing, requests |-> requests,
             gathered |-> <<>>, results |-> <<>>, errors |-> <<>>, result_indexes |-> <<>>]
  /\ UNCHANGED <<persistent, response, cache, analytics_store, now>>

\* Parallel mode: one of the gathered tasks runs (a task has no suspension
\* point, it runs whole; the order of the tasks is the event loop's)
RunTask(i) ==
  LET Ran(outcome) ==
        /\ job' = [job EXCEPT !.gathered = (i :> outcome.result) @@ @]
        /\ cache' = outcome.cache
        /\ analytics_store' = analytics_store \o outcome.stored
  IN  /\ job.phase = "running"
      /\ job.parallel_processing
      /\ i \in 1..Len(job.requests)
      /\ i \notin DOMAIN job.gathered
      /\ Ran(get_enhanced_recommendation(job.requests[i], cache, now))
      /\ UNCHANGED <<persistent, response, now>>

\* Sequential mode: the next request of the loop is processed under its try
RunNext ==
  LET Ran(i, outcome) ==
        /\ job' = IF Raised(outcome.result)
                  THEN [job EXCEPT !.errors = Append(@, [request_index |-> i - 1, error |-> outcome.result.exc])]
                  ELSE [job EXCEPT !.results = Append(@, outcome.result), !.result_indexes = Append(@, i - 1)]
        /\ cache' = outcome.cache
        /\ analytics_store' = analytics_store \o outcome.stored
      Step(i) == Ran(i, get_enhanced_recommendation(job.requests[i], cache, now))
  IN  /\ job.phase = "running"
      /\ ~job.parallel_processing
      /\ Len(job.results) + Len(job.errors) < Len(job.requests)
      /\ Step(Len(job.results) + Len(job.errors) + 1)
      /\ UNCHANGED <<persistent, response, now>>

\* Every request is processed: the gathered results are sorted into results
\* and errors (parallel mode) and the bulk response is returned
BulkRespond ==
  LET Responded(done) ==
        response' = [op |-> "bulk",
                     args |-> [requests |-> job.requests, parallel_processing |-> job.parallel_processing],
                     out |-> [total_requests |-> Len(done.requests),
                              completed |-> Len(done.results),
                              failed |-> Len(done.errors),
                              results |-> done.results,
                              errors |-> done.errors],
                     locals |-> [result_indexes |-> done.result_indexes],
                     raised |-> "none"]
  IN  /\ job.phase = "running"
      /\ IF job.parallel_processing THEN DOMAIN job.gathered = 1..Len(job.requests)
         ELSE Len(job.results) + Len(job.errors) = Len(job.requests)
      /\ Responded(IF job.parallel_processing
                   THEN CollectGathered([i \in 1..Len(job.requests) |-> job.gathered[i]], 1, job)
                   ELSE job)
      /\ job' = NoJob
      /\ UNCHANGED <<persistent, cache, analytics_store, now>>

\* The caller takes the response of the enterprise API
ReturnEnterprise ==
  /\ ~Idle
  /\ response' = NoResponse
  /\ UNCHANGED <<persistent, enterprise>>

\* The single endpoint over time
NextEnterprise ==
  \/ \E request \in EnterpriseRequests : EnhancedRecommend(request)
  \/ Tick
  \/ ReturnEnterprise

SpecEnterprise == InitEnterprise /\ [][NextEnterprise]_vars

\* The bulk endpoint, job after job
NextBulk ==
  \/ \E requests \in UNION {[1..n -> BulkRequests] : n \in 1..MaxBatch}, parallel_processing \in BOOLEAN : BeginBulk(requests, parallel_processing)
  \/ \E i \in 1..MaxBatch : RunTask(i)
  \/ RunNext
  \/ BulkRespond
  \/ ReturnEnterprise

SpecBulk == InitEnterprise /\ [][NextBulk]_vars

----------------------------------------------------------------------------
(* Properties *)

IsRecommendation == response.op = "recommend" /\ "target" \in DOMAIN response.out

IsScoreResult == response.op = "score" /\ "p_win" \in DOMAIN response.out

\* a/b <= c/d and a/b < c/d for positive denominators
LeqQ(p, q) == p[1] * q[2] <= q[1] * p[2]

LessQ(p, q) == p[1] * q[2] < q[1] * p[2]

EqQ(p, q) == p[1] * q[2] = q[1] * p[2]

\* The candidates are the 20 grid points from floor to ceiling, each with
\* expected_margin = (price - cogs) * win_probability
GridIsScored ==
  LET cs == response.locals.candidate_scores
      cogs == response.locals.context["cogs"]
      floor == response.out.floor
      ceiling == response.locals.ceiling_price
  IN  /\ Len(cs) = 20
      /\ \A i \in 1..20 :
            /\ cs[i].price = <<19 * floor + (i - 1) * (ceiling - floor), 19>>
            /\ cs[i].expected_margin = (cs[i].price[1] - 19 * cogs) * cs[i].win_probability

\* C1: the target of a recommendation is the grid candidate with the greatest
\* expected_margin = (price - cogs) * win_probability, and among several
\* candidates with that greatest value it is the first one in grid order.
C1_TargetIsFirstMaximum ==
  IsRecommendation =>
    LET cs == response.locals.candidate_scores
    IN  /\ GridIsScored
        /\ \E t \in 1..20 :
              /\ \A j \in 1..20 : cs[j].expected_margin <= cs[t].expected_margin
              /\ \A j \in 1..(t - 1) : cs[j].expected_margin < cs[t].expected_margin
              /\ response.locals.target_price = cs[t].price
              /\ response.out.target = RoundHalfEven(cs[t].price[1], 19)

\* C1 witness: two candidates at different prices tie on the greatest,
\* positive expected margin and the target is the lower-priced one.
C1_Witness ==
  /\ IsRecommendation
  /\ LET cs == response.locals.candidate_scores
     IN  \E i, j \in 1..20 :
           /\ i < j
           /\ cs[i].price # cs[j].price
           /\ cs[i].expected_margin = cs[j].expected_margin
           /\ cs[i].expected_margin > 0
           /\ \A k \in 1..20 : cs[k].expected_margin <= cs[i].expected_margin
           /\ response.locals.target_price = cs[i].price

\* C2: the stretch price of a recommendation is the highest price among the
\* candidates with win_probability > 0.2 (strictly), and the ceiling price
\* when no candidate has win_probability > 0.2.
C2_StretchIsHighestViable ==
  IsRecommendation =>
    LET cs == response.locals.candidate_scores
        viable == {i \in 1..20 : cs[i].win_probability > 200}
        stretch == response.locals.stretch_price
    IN  /\ GridIsScored
        /\ viable # {} =>
              /\ \E i \in viable : stretch = cs[i].price
              /\ \A i \in viable : LeqQ(cs[i].price, stretch)
        /\ viable = {} => EqQ(stretch, <<response.locals.ceiling_price, 1>>)
        /\ response.out.stretch = RoundHalfEven(stretch[1], stretch[2])

\* C2 witness: a candidate with win probability exactly 0.2 is priced above
\* the stretch price, which is the price of a viable candidate.
C2_Witness ==
  /\ IsRecommendation
  /\ LET cs == response.locals.candidate_scores
     IN  /\ \E i \in 1..20 : /\ cs[i].win_probability = 200
                              /\ LessQ(response.locals.stretch_price, cs[i].price)
         /\ \E i \in 1..20 : /\ cs[i].win_probability > 200
                              /\ cs[i].price = response.locals.stretch_price

\* Target and stretch, as returned and as selected, lie in [floor, ceiling]
WithinBounds ==
  LET floor == response.out.floor
      ceiling == response.locals.ceiling_price
  IN  /\ floor <= response.out.target /\ response.out.target <= ceiling
      /\ floor <= response.out.stretch /\ response.out.stretch <= ceiling
      /\ LeqQ(<<floor, 1>>, response.locals.target_price)
      /\ LeqQ(response.locals.target_price, <<ceiling, 1>>)
      /\ LeqQ(<<floor, 1>>, response.locals.stretch_price)
      /\ LeqQ(response.locals.stretch_price, <<ceiling, 1>>)

PromisedPolicy(context) ==
  LET matching == SelectSeq(policy_df.rows,
                    LAMBDA r : /\ r.region = context["region"]
                               /\ r.family = context["product_family"])
  IN  IF Len(matching) = 0
      THEN [min_margin_pct |-> 100, ceiling_pct |-> 2000, miss |-> TRUE]
      ELSE [min_margin_pct |-> matching[1].min_margin_pct,
            ceiling_pct |-> matching[1].ceiling_pct, miss |-> FALSE]

\* The band promised for a price in cents: REJECT below the minimum margin,
\* else APPROVED up to the ceiling price, else REVIEW
PromisedBand(price, cogs, min_margin_pct, ceiling_price) ==
  IF (price - cogs) * 1000 < min_margin_pct * cogs THEN "REJECT"
  ELSE IF price <= ceiling_price THEN "APPROVED"
  ELSE "REVIEW"

\* C5: approval_band always returns one of APPROVED, REVIEW, REJECT, namely
\* REJECT if (price - cogs) / cogs < min_margin_pct, otherwise APPROVED if
\* price <= ceiling_price, otherwise REVIEW; with cogs 80 and the terms
\* 0.10 / 2.0 the prices 75, 100, 200 are REJECT, APPROVED, REVIEW.
C5_ApprovalBandClassifies ==
  response.op = "approval_band" =>
    LET context == response.locals.context
        cogs == context["cogs"]
        price == response.args.proposed_price
        policy == PromisedPolicy(context)
        band == PromisedBand(price, cogs, policy.min_margin_pct,
                             RoundHalfEven(cogs * policy.ceiling_pct, 1000))
    IN  /\ DOMAIN response.out = {"band"}
        /\ response.out.band \in {"APPROVED", "REVIEW", "REJECT"}
        /\ response.out.band = band
        /\ (cogs = 8000 /\ policy.min_margin_pct = 100 /\ policy.ceiling_pct = 2000) =>
              /\ price = 7500 => response.out.band = "REJECT"
              /\ price = 10000 => response.out.band = "APPROVED"
              /\ price = 20000 => response.out.band = "REVIEW"

\* C6: for every context with cogs > 0 and every policy the bounds operation
\* applies with min_margin_pct <= ceiling_pct - 1, floor_price <= ceiling_price,
\* where floor_price is cogs * (1 + min_margin_pct) and ceiling_price is
\* cogs * ceiling_pct, each rounded to the cent; cogs 80 with 0.10 and 2.0
\* gives 88.00 and 160.00.
C6_FloorAtMostCeiling ==
  (/\ response.op = "bounds"
   /\ "reasons" \in DOMAIN response.out
   /\ response.locals.context["cogs"] > 0
   /\ response.out.reasons[1] <= response.out.reasons[2] - 1000) =>
    LET cogs == response.locals.context["cogs"]
        min_margin_pct == response.out.reasons[1]
        ceiling_pct == response.out.reasons[2]
        floor == response.out.floor_price
        ceiling == response.out.ceiling_price
    IN  /\ floor <= ceiling
        /\ 2 * (1000 * floor - cogs * (1000 + min_margin_pct)) \in -1000..1000
        /\ 2 * (1000 * ceiling - cogs * ceiling_pct) \in -1000..1000
        /\ (cogs = 8000 /\ min_margin_pct = 100 /\ ceiling_pct = 2000) =>
              (floor = 8800 /\ ceiling = 16000)

\* C6 witness: the bounds of a policy row with min_margin_pct = ceiling_pct - 1
\* whose exact floor is not a whole number of cents; floor and ceiling round
\* to the same cent.
C6_Witness ==
  /\ response.op = "bounds"
  /\ "reasons" \in DOMAIN response.out
  /\ response.out.reasons[1] = response.out.reasons[2] - 1000
  /\ (response.locals.context["cogs"] * (1000 + response.out.reasons[1])) % 1000 # 0
  /\ response.out.floor_price = response.out.ceiling_price

\* C7: enrichment supplies the documented default for every field no lookup
\* supplied (product_family Widgets, cogs 80.00, customer_segment Enterprise,
\* region EMEA, competitor_price cogs * 1.3), and recommend_price returns a
\* recommendation with floor and target for any sku and customer_id.
C7_MissingRowsDefaultAndRecommend ==
  response.op = "recommend" =>
    LET context == Enriched(response.args)
        product == SelectSeq(products_df.rows, LAMBDA r : r.sku = response.args.sku)
        cost == IF Len(product) = 0 THEN <<>>
                ELSE SelectSeq(cogs_df.rows,
                               LAMBDA r : r.product_id = product[1].product_id)
        customer == SelectSeq(customers_df.rows,
                              LAMBDA r : r.customer_id = response.args.customer_id)
    IN  /\ Len(product) = 0 => context["product_family"] = "Widgets"
        /\ Len(cost) = 0 => context["cogs"] = 8000
        /\ Len(customer) = 0 => /\ context["customer_segment"] = "Enterprise"
                                /\ context["region"] = "EMEA"
        /\ context["competitor_price"] = 13 * context["cogs"]
        /\ {"floor", "target"} \subseteq DOMAIN response.out

\* C8: whenever no policy row matches (region, product_family), including an
\* empty table and a table that was not loaded, the bounds operation does not
\* raise and applies min_margin_pct 0.10, ceiling_pct 2.0 and the bands
\* APPROVED, REVIEW, REJECT.
C8_DefaultPolicyOnMiss ==
  (response.op = "bounds" /\ PromisedPolicy(response.locals.context).miss) =>
    /\ "exc" \notin DOMAIN response.out
    /\ response.out.min_margin_pct = 100
    /\ response.out.reasons = <<100, 2000>>
    /\ response.out.approval_bands = <<"APPROVED", "REVIEW", "REJECT">>

\* A complete output of a boundary operation
IsCompleteOutput ==
  CASE response.op = "recommend" ->
         DOMAIN response.out = {"floor", "target", "stretch", "p_win_at_target",
                                "reasons", "agent_insights", "confidence_score"}
    [] response.op = "score" ->
         DOMAIN response.out = {"p_win", "expected_margin", "approval_band",
                                "reasons", "agent_insights"}
    [] response.op = "curve" ->
         /\ Len(response.out) = 15
         /\ \A i \in 1..15 : DOMAIN response.out[i] = {"price", "p_win"}

\* C9: for recommend, score and curve, an exception raised in the pipeline is
\* returned as an {error: message} record, and every result is either a
\* complete output or an error record.
C9_ErrorsAreStructured ==
  response.op \in {"recommend", "score", "curve"} =>
    IF response.raised = "none"
    THEN IsCompleteOutput
    ELSE response.out = [error |-> response.raised]

\* C10: score_price is idempotent and deterministic. After any earlier calls,
\* the same score call made again in the state the first call left returns the
\* result the first call returned, and a score call leaves the tables, the
\* classifier and the encoders as they were.
C10_ScoreIsIdempotent ==
  /\ [](response.op = "score" =>
          response.out = ScoreResult(response.args.req, response.args.proposed_price))
  /\ [][(Idle /\ response'.op = "score") => persistent' = persistent]_vars

\* C10 witness: a scored price for a customer segment the encoders have not
\* seen, with a table row for the product and the customer.
C10_Witness ==
  /\ IsScoreResult
  /\ encoders = PartialEncoders
  /\ response.locals.context["customer_segment"] = "SMB"
  /\ response.locals.context["product_family"] = "Gadgets"

\* The policy bounds of the request a response answers
BoundsOf(req) == RulesAgent_execute(Enriched(req))

\* The curve has 15 points, point i priced at grid point i of the 15-point
\* grid from floor to ceiling, rounded to the cent
CurveFollowsGrid ==
  LET floor == BoundsOf(response.args).floor_price
      ceiling == BoundsOf(response.args).ceiling_price
  IN  /\ Len(response.out) = 15
      /\ \A i \in 1..15 :
            response.out[i].price = RoundHalfEven(14 * floor + (i - 1) * (ceiling - floor), 14)

CurveStrictlyAscending ==
  \A i \in 1..(Len(response.out) - 1) : response.out[i].price < response.out[i + 1].price

C13_ElasticitySign ==
  (response.op = "elasticity" /\ response.args["quantity"] >= 1) =>
    LET context == response.args
        current_price == Get(context, "current_price", <<10000, 1>>)
    IN  /\ AdjustedElasticity(context["customer_segment"], context["region"],
                              context["quantity"]) < 0
        /\ response.out.price_elasticity < 0
        /\ (context["proposed_price"][1] > current_price[1] /\ current_price[1] > 0) =>
              response.out.demand_change_pct <= 0

\* C13 witness: a price increase over a positive current price for a key
\* that is not in the table, with a demand change below 0.
C13_Witness ==
  /\ response.op = "elasticity"
  /\ response.args["customer_segment"] = "Government"
  /\ "current_price" \in DOMAIN response.args
  /\ response.args["current_price"][1] > 0
  /\ response.args["proposed_price"][1] > response.args["current_price"][1]
  /\ response.out.demand_change_pct < 0

\* The (segment, region) table of the specification: base elasticity in
\* tenths and volume adjustment in hundredths, base -1.5 for an absent key
PromisedElasticity(segment, region) ==
  CASE segment = "Enterprise" /\ region = "EMEA" -> <<-12, 10>>
    [] segment = "Enterprise" /\ region = "Americas" -> <<-11, 12>>
    [] segment = "SMB" /\ region = "EMEA" -> <<-18, 5>>
    [] segment = "SMB" /\ region = "Americas" -> <<-17, 8>>
    [] OTHER -> <<-15, 8>>

\* C16: adjusted_elasticity = base_elasticity * (1 - min(1, quantity/20) *
\* volume_adj) with the terms of the (segment, region) table, base -1.5 for an
\* absent key, and demand_change_pct = adjusted_elasticity * (proposed -
\* current) / current; Enterprise/EMEA at quantity 10 gives -1.14, and a 10%
\* increase then gives -0.114.
C16_ElasticityFormula ==
  (response.op = "elasticity" /\ response.args["quantity"] >= 1) =>
    LET context == response.args
        terms == PromisedElasticity(context["customer_segment"], context["region"])
        quantity == context["quantity"]
        \* adjusted elasticity times 20000
        adjusted == terms[1] * (2000 - (IF quantity < 20 THEN quantity ELSE 20) * terms[2])
        current == Get(context, "current_price", <<10000, 1>>)[1]
        proposed == context["proposed_price"][1]
    IN  /\ response.out.price_elasticity = RoundHalfEven(adjusted, 200)
        /\ current > 0 =>
              response.out.demand_change_pct =
                RoundHalfEven(adjusted * (proposed - current), 20 * current)
        /\ (context["customer_segment"] = "Enterprise" /\ context["region"] = "EMEA"
            /\ quantity = 10) =>
              /\ response.out.price_elasticity = -114
              /\ (current = 10000 /\ proposed = 11000) =>
                    response.out.demand_change_pct = -114

\* C16 witness: Enterprise/EMEA at quantity 10 with a 10% price increase over
\* the current price 100.00: elasticity -1.14, demand change -0.114.
C16_Witness ==
  /\ response.op = "elasticity"
  /\ response.args["customer_segment"] = "Enterprise"
  /\ response.args["region"] = "EMEA"
  /\ response.args["quantity"] = 10
  /\ Get(response.args, "current_price", <<0, 1>>) = <<10000, 1>>
  /\ response.args["proposed_price"] = <<11000, 1>>
  /\ response.out.price_elasticity = -114
  /\ response.out.demand_change_pct = -114

\* The confidence label of three factors given in tenths: High when their
\* average is > 0.8, Medium when it is > 0.6, Low otherwise
PromisedConfidence(f1, f2, f3) ==
  IF f1 + f2 + f3 > 3 * 8 THEN "High"
  ELSE IF f1 + f2 + f3 > 3 * 6 THEN "Medium"
  ELSE "Low"

WinTier(win_probability) ==
  IF win_probability > 600 THEN 10 ELSE IF win_probability > 400 THEN 7 ELSE 3

Stability(price_elasticity) ==
  IF price_elasticity > -200 /\ price_elasticity < 200 THEN 9 ELSE 5

C18_SameBucketsAsTraining ==
  (response.op = "buckets" /\ response.args.quantity >= 1 /\ response.args.ratio[1] > 0) =>
    /\ response.out.volume_tier = response.out.train_volume_tier
    /\ response.out.price_position = response.out.train_price_position

\* C14: win-probability inference does not fail on a categorical value the
\* encoders have not seen, nor on a categorical column without encoder: the
\* value is encoded as 0 and a prediction is returned.
C14_UnseenCategoryIsZero ==
  response.op = "winrate" =>
    /\ "win_probability" \in DOMAIN response.out
    /\ response.out.win_probability \in 0..1000
    /\ \A col \in DOMAIN response.out.model_features.values :
          (\/ col \notin DOMAIN encoders
           \/ \A i \in 1..Len(encoders[col]) :
                 encoders[col][i] # response.out.model_features.values[col])
            => response.out.model_features.encoded[col] = 0

\* C14 witness: an inference for a segment and a region the encoders have
\* not seen and a family column without encoder, all three encoded as 0.
C14_Witness ==
  /\ response.op = "winrate"
  /\ "win_probability" \in DOMAIN response.out
  /\ encoders = PartialEncoders
  /\ response.args.customer_segment = "Government"
  /\ response.args.region = "APAC"
  /\ response.out.model_features.encoded["segment"] = 0
  /\ response.out.model_features.encoded["region"] = 0
  /\ response.out.model_features.encoded["family"] = 0

\* C17: for invalid numeric input that reaches the core (a proposed price of
\* 0 among it) no stage of score_price or recommend_price divides by zero.
C17_NoDivisionByZero ==
  response.op \in {"recommend", "score"} => response.raised # "ZeroDivisionError"

\* C20: every context the enrichment step returns has the required keys sku,
\* customer_id, quantity, country, channel, currency and the enriched keys
\* product_family, cogs, customer_segment, region, industry, competitor_price.
C20_ContextHasAllKeys ==
  response.op = "bounds" =>
    {"sku", "customer_id", "quantity", "country", "channel", "currency",
     "product_family", "cogs", "customer_segment", "region", "industry",
     "competitor_price"} \subseteq DOMAIN response.locals.context

HasRiskSentence ==
  \E i \in 1..Len(response.out.reasons.explanation) :
     response.out.reasons.explanation[i] = "Key risks"

\* C19: the explanation of a recommend_price or score_price call contains the
\* 'Key risks' sentence exactly when the win probability is below 0.3, the
\* elasticity is below -2.0, or the margin of the priced offer is below 10%.
C19_RiskSentenceWhenRisky ==
  /\ IsRecommendation =>
       LET cogs == response.locals.context["cogs"]
           target == response.locals.target_price
       IN  HasRiskSentence <=>
             \/ response.out.p_win_at_target < 300
             \/ response.out.agent_insights.elasticity < -200
             \/ (target[1] - target[2] * cogs) * 10 < target[2] * cogs
  /\ IsScoreResult =>
       LET cogs == response.locals.context["cogs"]
           price == response.args.proposed_price
       IN  HasRiskSentence <=>
             \/ response.out.p_win < 300
             \/ response.out.agent_insights.elasticity < -200
             \/ (price - cogs) * 10 < cogs

\* The required and the enriched keys of a context
ContextKeys ==
  {"sku", "customer_id", "quantity", "country", "channel", "currency",
   "product_family", "cogs", "customer_segment", "region", "competitor_price"}

\* the context ctx of a later stage has every key of the enriched context of
\* the request req with the value enrichment gave it
KeepsEnriched(ctx, req) ==
  \A k \in ContextKeys : k \in DOMAIN ctx /\ ctx[k] = Enriched(req)[k]

\* C21: after enrichment no later stage of recommend_price, score_price or
\* get_win_curve changes the value of a required or enriched context key: the
\* context merged with the rules result, every candidate context, the final
\* context, the explanation context and every price context of the curve carry
\* the enriched values, and the rules result shares no key with them.
C21_EnrichedKeysKept ==
  /\ IsRecommendation =>
       /\ KeepsEnriched(response.locals.context, response.args)
       /\ \A i \in 1..Len(response.locals.candidate_contexts) :
            KeepsEnriched(response.locals.candidate_contexts[i], response.args)
       /\ KeepsEnriched(response.locals.final_context, response.args)
       /\ KeepsEnriched(response.locals.explanation_context, response.args)
       /\ DOMAIN BoundsOf(response.args) \cap ContextKeys = {}
  /\ IsScoreResult =>
       /\ KeepsEnriched(response.locals.context, response.args.req)
       /\ KeepsEnriched(response.locals.explanation_context, response.args.req)
  /\ (response.op = "curve" /\ response.raised = "none") =>
       /\ KeepsEnriched(response.locals.context, response.args)
       /\ \A i \in 1..Len(response.locals.price_contexts) :
            KeepsEnriched(response.locals.price_contexts[i], response.args)

\* a recommendation for a product whose cost came from the cost table, with
\* the rules result merged into the context
C21_Witness ==
  /\ IsRecommendation
  /\ response.locals.context["cogs"] = 3333
  /\ "floor_price" \in DOMAIN response.locals.context
  /\ "win_probability" \in DOMAIN response.locals.explanation_context

IsOrderedRecommendation ==
  response.op = "recommend_in_order" /\ response.raised = "none"

\* what the loop of recommend_price, in grid order, selects for the request
InGridOrder == RecommendFor(Enriched(response.args.req)).locals

SameStretch == response.locals.stretch_price = InGridOrder.stretch_price

SameTarget == response.locals.target_price = InGridOrder.target_price

\* exactly one candidate has the largest expected margin
UniqueMaximum ==
  LET scores == response.locals.candidate_scores
  IN  \E i \in 1..Len(scores) :
        \A j \in 1..Len(scores) :
          j # i => scores[j].expected_margin < scores[i].expected_margin

C23_NoWriteAtAnyStage ==
  /\ [][persistent' = persistent]_vars
  /\ [](Finished =>
          response.out =
            StagedResult(response.call, StagedOutcome(response.call, response.args)))

\* a recommendation between its grid search and its final metrics, for a
\* customer segment the encoders have not seen
C23_Witness ==
  /\ response.op = "staged"
  /\ response.call = "recommend"
  /\ ~Finished
  /\ "grid" \in DOMAIN response.locals
  /\ encoders = PartialEncoders
  /\ response.locals.enrich["customer_segment"] = "SMB"

\* C24: whenever cogs > 0 and the policy gives floor_price <= ceiling_price,
\* the approval band recommend_price reports for its own target price is
\* APPROVED, also when floor_price and ceiling_price were rounded to 2 decimals.
C24_TargetIsApproved ==
  (/\ IsRecommendation
   /\ response.locals.context["cogs"] > 0
   /\ response.out.floor <= response.locals.ceiling_price)
  => response.out.reasons.approval_band = "APPROVED"

\* C25: in the elastic regime (adjusted_elasticity < -1), for every
\* (segment, region) key, every quantity >= 1 and every cogs > 0, the
\* suggested_price of the Elasticity Agent is a positive price not below cogs,
\* and the computation does not divide by zero.
C25_SuggestedPriceAboveCost ==
  (/\ response.op = "elasticity"
   /\ response.args["quantity"] >= 1
   /\ "cogs" \in DOMAIN response.args
   /\ response.args["cogs"] > 0
   /\ AdjustedElasticity(response.args["customer_segment"], response.args["region"],
                         response.args["quantity"]) < -20000)
  => /\ ~Raised(response.out)
     /\ response.out.suggested_price > 0
     /\ response.out.suggested_price >= response.args["cogs"]

\* C26: for every request whose applicable policy configures an APPROVED band
\* (the default policy included), recommend_price never returns
\* confidence_score 'Low', whatever the win probability at the target: the
\* elasticity at the target has magnitude below 2.0.
C26_NeverLowWhenApprovedConfigured ==
  (/\ IsRecommendation
   /\ \E i \in 1..Len(BoundsOf(response.args).approval_bands) :
        InText(BoundsOf(response.args).approval_bands[i]))
  => /\ response.out.confidence_score # "Low"
     /\ response.out.agent_insights.elasticity > -200
     /\ response.out.agent_insights.elasticity < 200

\* a recommendation under a policy row of the table whose target has a win
\* probability of at most 0.4: the confidence is Medium
C26_Witness ==
  /\ IsRecommendation
  /\ Len(policy_df.rows) > 0
  /\ response.locals.context["policy_source"] = <<"EMEA", "Widgets">>
  /\ response.out.p_win_at_target <= 400
  /\ response.out.confidence_score = "Medium"

\* C27: the p_win_at_target of a recommendation, obtained by re-evaluating the
\* Win-Probability Agent at the chosen target, equals the win_probability the
\* grid search recorded for the target candidate, and the expected margin
\* quoted in the reasons is (target - cogs) * p_win_at_target.
C27_FinalWinRateIsCandidateWinRate ==
  IsRecommendation =>
    LET cs == response.locals.candidate_scores
        target == response.locals.target_price
        cogs == response.locals.context["cogs"]
    IN  /\ \E i \in 1..Len(cs) : cs[i].price = target
        /\ \A i \in 1..Len(cs) :
             cs[i].price = target =>
               cs[i].win_probability = response.out.p_win_at_target
        /\ response.out.reasons.expected_margin =
             Round2((target[1] - target[2] * cogs) * response.out.p_win_at_target,
                    target[2] * 1000)

\* a target below the stretch price, with a win probability that differs
\* from the one at the stretch price
C27_Witness ==
  /\ IsRecommendation
  /\ LET cs == response.locals.candidate_scores
     IN  \E i \in 1..Len(cs) :
           /\ cs[i].price = response.locals.stretch_price
           /\ cs[i].price # response.locals.target_price
           /\ cs[i].win_probability # response.out.p_win_at_target
  /\ response.out.p_win_at_target > 0
  /\ response.out.reasons.expected_margin > 0

\* C28: in recommend_price with quantity >= 1 the elasticity_score of every
\* grid candidate (the revenue_change_pct of the Elasticity Agent) is 0: the
\* agent is evaluated with its current price equal to the candidate price, so
\* its output does not distinguish one candidate from another.
C28_ElasticityScoreIsZero ==
  (IsRecommendation /\ response.args.quantity >= 1) =>
    \A i \in 1..Len(response.locals.candidate_scores) :
      response.locals.candidate_scores[i].elasticity_score = 0

\* a recommendation for one unit over a grid of different prices, in the
\* elastic regime
C28_Witness ==
  /\ IsRecommendation
  /\ response.args.quantity = 1
  /\ response.out.floor < response.locals.ceiling_price
  /\ response.out.agent_insights.elasticity < -100
  /\ response.locals.candidate_scores[1].price
       # response.locals.candidate_scores[20].price
  /\ response.locals.candidate_scores[20].elasticity_score = 0

----------------------------------------------------------------------------
(* The enterprise API: the result cache and the bulk endpoint *)

IsCachedResponse == response.op = "enhanced_recommend" /\ response.locals.cache_hit

\* C29: a response served from the cache for request R equals, apart from
\* cache_hit (and the expiry instant of a response built now), the response
\* computed fresh for R: it carries R's quote_id and reflects R's
\* pricing_strategy, customer_tier and region; and it is served only while
\* its expires_at is later than the current time.
C29_CachedResponseIsFresh ==
  IsCachedResponse =>
    LET fresh == FreshRecommendation(response.args, response.locals.now)
    IN  /\ response.out.expires_at > response.locals.now
        /\ [response.out EXCEPT !.cache_hit = FALSE, !.expires_at = fresh.expires_at] = fresh

IsBulkResponse == response.op = "bulk"

\* The indexes (from 0) of the errors and of the results of a bulk response
ErrorIndexes == {response.out.errors[k].request_index : k \in 1..Len(response.out.errors)}

ResultIndexes == {response.locals.result_indexes[k] : k \in 1..Len(response.locals.result_indexes)}

\* The indexes (from 0) of the requests of the job that raise when processed
FailingIndexes == {i - 1 : i \in {j \in 1..Len(response.args.requests) : Raised(FreshRecommendation(response.args.requests[j], now))}}

\* C30: in a bulk response, parallel or sequential, every request index is in
\* exactly one of results and errors, completed + failed = total_requests,
\* and the errors are exactly the requests that fail by themselves: every
\* other request has its result, whatever failed before or after it.
C30_EveryIndexInOneList ==
  IsBulkResponse =>
    /\ response.out.total_requests = Len(response.args.requests)
    /\ response.out.completed = Len(response.out.results)
    /\ response.out.failed = Len(response.out.errors)
    /\ response.out.completed + response.out.failed = response.out.total_requests
    /\ Len(response.locals.result_indexes) = Len(response.out.results)
    /\ Cardinality(ResultIndexes) = Len(response.out.results)
    /\ Cardinality(ErrorIndexes) = Len(response.out.errors)
    /\ ResultIndexes \cap ErrorIndexes = {}
    /\ ResultIndexes \cup ErrorIndexes = 0..(Len(response.args.requests) - 1)
    /\ ErrorIndexes = FailingIndexes

\* A parallel job of three requests whose second request failed and whose
\* first and third requests have their results
C30_Witness ==
  /\ IsBulkResponse
  /\ response.args.parallel_processing
  /\ ErrorIndexes = {1}
  /\ ResultIndexes = {0, 2}

\* The same in sequential mode
SequentialFailureInTheMiddle ==
  /\ IsBulkResponse
  /\ ~response.args.parallel_processing
  /\ ErrorIndexes = {1}
  /\ ResultIndexes = {0, 2}

====
